---- MODULE Spec2Model ----
(***************************************************************************)
(* A model of the go-decorator weaving engine (cmd/decorator).             *)
(*                                                                         *)
(* The specifications of this module:                                      *)
(*   SpecParse    parseDecorAndParameters applied to directive payloads    *)
(*   SpecLint     checkDecorAndGetParam: lint rules, defaults, validation  *)
(*   Spec         compile: type-level propagation, scanning, weaving       *)
(*   SpecCall     a call of a woven function at run time                   *)
(*   SpecGen      builderReplaceArgs and the positions of generated code   *)
(*   SpecLoad     pkgLoader.loadPkg and its cache                          *)
(*   SpecImport   newImporter on the imports of a file                     *)
(*   SpecLetters  isLetters on byte strings                                *)
(*                                                                         *)
(* Text is modelled as a sequence of one-character strings, so that the    *)
(* byte-level tests of the code (len, pStr[0], HasSuffix, Cut, TrimSpace)  *)
(* and the tokenisation done by go/parser are computed, not assumed.       *)
(***************************************************************************)
EXTENDS Integers, Sequences, FiniteSets, TLC

VARIABLES
    \* SpecParse
    directive,   \* the structured directive the payload text is rendered from
    payload,     \* the text handed to parseDecorAndParameters
    parsed,      \* its result, once ppc = "done"
    ppc,         \* "idle" (not used), "ready", "done"
    \* SpecLint
    decor,       \* the resolved decorator: parameters and lint annotations
    annotation,  \* the directive's parameter map (key -> literal text)
    checked,     \* result of checkDecorAndGetParam, once lpc = "done"
    lpc,         \* "idle", "ready", "done"
    \* Spec (compile)
    types,       \* type declarations of the compilation unit
    funcs,       \* function declarations of the compilation unit
    imp,         \* import table of the file being woven
    cpc,         \* "idle", "rebuild", "scan", "chain", "emit", "done", "fatal"
    cur,         \* index of the function being visited
    collDecors,  \* directive chain collected for funcs[cur]
    step,        \* index into collDecors of the next directive to apply
    fatal,       \* message of the fatal error that stopped the run, or ""
    errPos,      \* positions reported with the fatal error
    imports,     \* file -> import table of the file as written
    updated,     \* compile: a body of the file being woven was replaced
    staging,     \* files written to the staging directory
    compileArgs, \* compile: args, file -> its path in the compiler arguments
    target,      \* the woven function that is called
    ctx,         \* the decor.Context built by the woven function
    rpc,         \* "idle", "ready", "decor", "done", "panicked"
    hist,        \* what happened during the call: TargetDo calls, runs of Func
    ret,         \* the values the woven function returned
    \* SpecGen
    fdecl,       \* the target declaration handed to builderReplaceArgs
    gi,          \* genIdentId of the target: ident and id
    ras,         \* the ReplaceArgs built so far, one per directive of the chain
    genStmts,    \* the statements generated for the last directive
    genDecors,   \* the directives of the target's chain (collDecors)
    wcfOk,       \* pkg.Files holds the decor package's wrapped_code.go
    gpc,         \* "idle", "ready", "panicked"
    \* SpecLoad
    loaderPkg,   \* pkgLoader.pkg: package path -> parsed package set
    loads,       \* what each loadPkg call did and returned, in order
    \* SpecImport
    astImports,  \* f.Imports: the import specs of a file
    built,       \* the importer newImporter returned, once ipc = "done"
    ipc,         \* "idle", "ready", "done"
    \* SpecLetters
    text,        \* the bytes of the string handed to isLetters
    letters,     \* its result, once tpc = "done"
    tpc          \* "idle", "ready", "done"

parseVars == <<directive, payload, parsed, ppc>>
lintVars == <<decor, annotation, checked, lpc>>
emitVars == <<imports, updated, staging, compileArgs>>
compileVars == <<types, funcs, imp, cpc, cur, collDecors, step, fatal, errPos,
                 imports, updated, staging, compileArgs>>
callVars == <<target, ctx, rpc, hist, ret>>
genVars == <<fdecl, gi, ras, genStmts, genDecors, wcfOk, gpc>>
loadVars == <<loaderPkg, loads>>
importVars == <<astImports, built, ipc>>
lettersVars == <<text, letters, tpc>>
toolVars == <<genVars, loadVars, importVars, lettersVars>>
engineVars == <<parseVars, lintVars, compileVars, callVars>>
vars == <<directive, payload, parsed, ppc, decor, annotation, checked, lpc,
          types, funcs, imp, cpc, cur, collDecors, step, fatal, errPos,
          imports, updated, staging, compileArgs, target, ctx, rpc, hist, ret,
          fdecl, gi, ras, genStmts, genDecors, wcfOk, gpc, loaderPkg, loads, astImports, built, ipc,
          text, letters, tpc>>

(***************************************************************************)
(* Text helpers (package strings).                                         *)
(***************************************************************************)
Min(S) == CHOOSE m \in S : \A n \in S : m <= n
Max(S) == CHOOSE m \in S : \A n \in S : m >= n

HasPrefix(s, p) == Len(s) >= Len(p) /\ SubSeq(s, 1, Len(p)) = p

HasSuffix(s, p) == Len(s) >= Len(p) /\ SubSeq(s, Len(s) - Len(p) + 1, Len(s)) = p

\* strings.Cut(s, sep) for a one-character separator: before, after, found
Cut(s, sep) ==
    LET hits == {i \in 1..Len(s) : s[i] = sep}
    IN  IF hits = {}
        THEN [before |-> s, after |-> <<>>, found |-> FALSE]
        ELSE [before |-> SubSeq(s, 1, Min(hits) - 1),
              after  |-> SubSeq(s, Min(hits) + 1, Len(s)),
              found  |-> TRUE]

Space == {" "}

\* strings.TrimSpace
TrimSpace(s) ==
    LET keep == {i \in 1..Len(s) : s[i] \notin Space}
    IN  IF keep = {} THEN <<>>
        ELSE SubSeq(s, Min(keep), CHOOSE m \in keep : \A n \in keep : n <= m)

RECURSIVE Flatten(_)
\* concatenation of a sequence of texts
Flatten(ss) == IF ss = <<>> THEN <<>> ELSE Head(ss) \o Flatten(Tail(ss))

(***************************************************************************)
(* go/scanner on the characters the modelled payloads are written in.      *)
(* Letters leaves out b, o, x, p, i and _ (number prefixes and suffixes),  *)
(* so a digit run followed by a letter other than e is an INT followed by  *)
(* an identifier; `else` is the only keyword these letters spell.          *)
(***************************************************************************)
Letters == {"a", "e", "f", "g", "k", "l", "r", "s", "t", "u"}
Digits == {"0", "1", "2", "3", "4", "5", "6", "7", "8", "9"}
Punct == {"{", "}", ":", ",", "-", "+", "."}
Keywords == {<<"e", "l", "s", "e">>}

\* first index >= i whose character is outside S (Len(s)+1 when none)
RunEnd(s, i, S) ==
    Min({j \in i..(Len(s) + 1) : j = Len(s) + 1 \/ s[j] \notin S})

At(s, i) == IF i >= 1 /\ i <= Len(s) THEN s[i] ELSE ""

\* scanner.scanNumber from position i (a digit, or a '.' followed by a digit):
\* decimal mantissa, optional fraction, optional exponent
ScanNumber(s, i) ==
    LET a    == RunEnd(s, i, Digits)
        frac == At(s, a) = "."
        b    == IF frac THEN RunEnd(s, a + 1, Digits) ELSE a
        expo == At(s, b) = "e"
        c    == IF expo /\ At(s, b + 1) \in {"+", "-"} THEN b + 2 ELSE b + 1
        d    == IF expo THEN RunEnd(s, c, Digits) ELSE b
    IN  IF expo /\ d = c
        THEN [t |-> "ILLEGAL", v |-> SubSeq(s, i, d - 1), next |-> d]
        ELSE [t |-> IF frac \/ expo THEN "FLOAT" ELSE "INT",
              v |-> SubSeq(s, i, d - 1), next |-> d]

\* scanner.Scan: the token starting at position i (not a space)
ScanToken(s, i) ==
    LET c == s[i]
    IN  IF c \in Letters
        THEN LET j == RunEnd(s, i, Letters \cup Digits)
                 w == SubSeq(s, i, j - 1)
             IN  [t |-> IF w \in Keywords THEN "KEYWORD" ELSE "IDENT",
                  v |-> w, next |-> j]
        ELSE IF c \in Digits \/ (c = "." /\ At(s, i + 1) \in Digits)
        THEN ScanNumber(s, i)
        ELSE IF c = "\""
        THEN LET close == {j \in (i + 1)..Len(s) : s[j] = "\""}
             IN  IF close = {}
                 THEN [t |-> "ILLEGAL", v |-> <<c>>, next |-> Len(s) + 1]
                 ELSE [t |-> "STRING", v |-> SubSeq(s, i, Min(close)),
                       next |-> Min(close) + 1]
        ELSE IF c = "'"
        THEN IF At(s, i + 2) = "'" /\ At(s, i + 1) # "'"
             THEN [t |-> "CHAR", v |-> SubSeq(s, i, i + 2), next |-> i + 3]
             ELSE [t |-> "ILLEGAL", v |-> <<c>>, next |-> Len(s) + 1]
        ELSE IF c \in Punct
        THEN [t |-> c, v |-> <<c>>, next |-> i + 1]
        ELSE [t |-> "ILLEGAL", v |-> <<c>>, next |-> Len(s) + 1]

RECURSIVE Scan(_, _)
\* the token sequence of s from position i; each token is [t, v]
Scan(s, i) ==
    IF i > Len(s) THEN <<>>
    ELSE IF s[i] \in Space THEN Scan(s, i + 1)
    ELSE LET tk == ScanToken(s, i)
         IN  <<[t |-> tk.t, v |-> tk.v]>> \o Scan(s, tk.next)

(***************************************************************************)
(* go/parser on those tokens: the expression grammar that the characters   *)
(* above can spell.  A node is [k, tk, v, op, xlit, elts]:                 *)
(*   k     Ident, BasicLit, UnaryExpr, BinaryExpr, SelectorExpr,           *)
(*         CompositeLit, MapType                                           *)
(*   tk    token kind of a BasicLit (or of the operand of a UnaryExpr)     *)
(*   v     source text (name, literal text, printed selector)              *)
(*   op    operator of a UnaryExpr                                         *)
(*   xlit  UnaryExpr: whether its operand X is a BasicLit                  *)
(*   elts  CompositeLit: its elements, [kv, key, value]                    *)
(***************************************************************************)
Node(k, tk, v, op, xlit, elts) ==
    [k |-> k, tk |-> tk, v |-> v, op |-> op, xlit |-> xlit, elts |-> elts]

NoNode == Node("Bad", "", <<>>, "", FALSE, <<>>)

Fail == [ok |-> FALSE, node |-> NoNode, next |-> 0]

Tok(toks, i) == IF i >= 1 /\ i <= Len(toks) THEN toks[i].t ELSE "EOF"

\* parser.parseOperand
ParseOperand(toks, i) ==
    IF Tok(toks, i) = "IDENT"
    THEN [ok |-> TRUE, next |-> i + 1,
          node |-> Node("Ident", "", toks[i].v, "", FALSE, <<>>)]
    ELSE IF Tok(toks, i) \in {"INT", "FLOAT", "STRING", "CHAR"}
    THEN [ok |-> TRUE, next |-> i + 1,
          node |-> Node("BasicLit", toks[i].t, toks[i].v, "", FALSE, <<>>)]
    ELSE Fail

\* the node kinds after which '{' opens a composite literal (parsePrimaryExpr)
LiteralTypeKinds == {"Ident", "SelectorExpr", "MapType"}

RECURSIVE ParsePostfix(_, _, _)
RECURSIVE ParseElementList(_, _, _)
RECURSIVE ParseUnaryExpr(_, _)
RECURSIVE ParseBinaryTail(_, _, _)

\* parser.parseLiteralValue, after its element list r
LiteralValueOf(r) ==
    IF r.ok
    THEN [ok |-> TRUE, next |-> r.next + 1,
          node |-> Node("CompositeLit", "", <<>>, "", FALSE, r.elts)]
    ELSE Fail

\* parser.parseLiteralValue: toks[i] is '{'; the elements up to the matching '}'
ParseLiteralValue(toks, i) == LiteralValueOf(ParseElementList(toks, i + 1, <<>>))

\* parser.parsePrimaryExpr, after the literal value lv of a composite literal
PostfixAfterLiteral(toks, lv) ==
    IF lv.ok THEN ParsePostfix(toks, lv.node, lv.next) ELSE Fail

\* the loop of parser.parsePrimaryExpr: selectors and composite literals
ParsePostfix(toks, x, i) ==
    IF Tok(toks, i) = "."
    THEN IF Tok(toks, i + 1) = "IDENT"
         THEN ParsePostfix(toks,
                  Node("SelectorExpr", "", x.v \o <<".">> \o toks[i + 1].v,
                       "", FALSE, <<>>),
                  i + 2)
         ELSE Fail
    ELSE IF Tok(toks, i) = "{" /\ x.k \in LiteralTypeKinds
    THEN PostfixAfterLiteral(toks, ParseLiteralValue(toks, i))
    ELSE [ok |-> TRUE, node |-> x, next |-> i]

\* parser.parsePrimaryExpr, after its operand x
PrimaryAfterOperand(toks, x) ==
    IF x.ok THEN ParsePostfix(toks, x.node, x.next) ELSE Fail

\* parser.parsePrimaryExpr
ParsePrimaryExpr(toks, i) == PrimaryAfterOperand(toks, ParseOperand(toks, i))

\* parser.parseUnaryExpr: the node of operator op applied to the operand x
UnaryOf(op, x) ==
    IF x.ok
    THEN [ok |-> TRUE, next |-> x.next,
          node |-> Node("UnaryExpr", x.node.tk, x.node.v, op,
                        x.node.k = "BasicLit", <<>>)]
    ELSE Fail

\* parser.parseUnaryExpr
ParseUnaryExpr(toks, i) ==
    IF Tok(toks, i) \in {"+", "-"}
    THEN UnaryOf(toks[i].t, ParseUnaryExpr(toks, i + 1))
    ELSE ParsePrimaryExpr(toks, i)

\* parser.parseBinaryExpr, after the right operand y of operator op
BinaryAfterOperand(toks, op, y) ==
    IF y.ok
    THEN ParseBinaryTail(toks, Node("BinaryExpr", "", <<>>, op, FALSE, <<>>), y.next)
    ELSE Fail

\* the loop of parser.parseBinaryExpr (the binary operators here are + and -)
ParseBinaryTail(toks, x, i) ==
    IF Tok(toks, i) \in {"+", "-"}
    THEN BinaryAfterOperand(toks, toks[i].t, ParseUnaryExpr(toks, i + 1))
    ELSE [ok |-> TRUE, node |-> x, next |-> i]

\* parser.parseExpr, after its first operand x
ExprAfterUnary(toks, x) ==
    IF x.ok THEN ParseBinaryTail(toks, x.node, x.next) ELSE Fail

\* parser.parseExpr
ParseExpr(toks, i) == ExprAfterUnary(toks, ParseUnaryExpr(toks, i))

\* parser.parseValue: an expression, or a literal value for an elided type
ParseValue(toks, i) ==
    IF Tok(toks, i) = "{" THEN ParseLiteralValue(toks, i) ELSE ParseExpr(toks, i)

NoElement == [ok |-> FALSE, elt |-> <<>>, next |-> 0]

\* parser.parseElement, after ':' and the value y of key x
KeyValueOf(x, y) ==
    IF y.ok
    THEN [ok |-> TRUE, next |-> y.next,
          elt |-> [kv |-> TRUE, key |-> x.node, value |-> y.node]]
    ELSE NoElement

\* parser.parseElement, after its first value x
ElementAfterKey(toks, x) ==
    IF ~x.ok THEN NoElement
    ELSE IF Tok(toks, x.next) = ":"
    THEN KeyValueOf(x, ParseValue(toks, x.next + 1))
    ELSE [ok |-> TRUE, next |-> x.next,
          elt |-> [kv |-> FALSE, key |-> x.node, value |-> x.node]]

\* parser.parseElement: value, or key ':' value
ParseElement(toks, i) == ElementAfterKey(toks, ParseValue(toks, i))

\* parser.parseElementList, after the element e
ElementListAfter(toks, acc, e) ==
    IF ~e.ok THEN [ok |-> FALSE, elts |-> <<>>, next |-> 0]
    ELSE IF Tok(toks, e.next) = ","
    THEN ParseElementList(toks, e.next + 1, Append(acc, e.elt))
    ELSE IF Tok(toks, e.next) = "}"
    THEN [ok |-> TRUE, elts |-> Append(acc, e.elt), next |-> e.next]
    ELSE [ok |-> FALSE, elts |-> <<>>, next |-> 0]

\* parser.parseElementList: elements separated by commas (a trailing comma is
\* allowed); next is the position of the closing '}'
ParseElementList(toks, i, acc) ==
    IF Tok(toks, i) = "}" THEN [ok |-> TRUE, elts |-> acc, next |-> i]
    ELSE ElementListAfter(toks, acc, ParseElement(toks, i))

\* the parse x is accepted when it used every token
WholeInput(toks, x) == IF x.ok /\ x.next = Len(toks) + 1 THEN x ELSE Fail

\* parser.ParseExpr on the tokens of its argument
ParseTokens(toks) == WholeInput(toks, ParseExpr(toks, 1))

\* parser.ParseExpr(s): one expression and nothing after it
ParseExprString(s) == ParseTokens(Scan(s, 1))

(***************************************************************************)
(* Directive parser (checker.go).  An error is a message; "" is nil.       *)
(***************************************************************************)
errUsedDecorSyntaxErrorLossFunc == "syntax error using decorator: miss decorator name"
errUsedDecorSyntaxErrorInvalidP == "syntax error using decorator: invalid parameter format"
errUsedDecorSyntaxError == "syntax error using decorator"

EmptyMap == [x \in {} |-> <<>>]

\* mapV.put with every key accepted: a repeated key overwrites
putOverwriting(items, key, value) ==
    [ok |-> TRUE, items |-> [x \in DOMAIN items \cup {key} |->
                                IF x = key THEN value ELSE items[x]]]

\* mapV.put: false when the key is already present, otherwise stores the value
put(items, key, value) ==
    IF key \in DOMAIN items
    THEN [ok |-> FALSE, items |-> items]
    ELSE [ok |-> TRUE, items |-> [x \in DOMAIN items \cup {key} |->
                                     IF x = key THEN value ELSE items[x]]]

\* realBasicLit that drops the sign of a negated literal
realBasicLitUnsigned(v) ==
    IF v.k = "BasicLit" THEN [nil |-> FALSE, Kind |-> v.tk, Value |-> v.v]
    ELSE IF v.k = "UnaryExpr" /\ v.xlit /\ v.op \in {"+", "-"}
    THEN [nil |-> FALSE, Kind |-> v.tk, Value |-> v.v]
    ELSE [nil |-> TRUE, Kind |-> "", Value |-> <<>>]

\* realBasicLit: the literal of a BasicLit or of a signed BasicLit ('-' is put
\* in front of its text, '+' is dropped), nil for anything else
realBasicLit(v) ==
    IF v.k = "BasicLit" THEN [nil |-> FALSE, Kind |-> v.tk, Value |-> v.v]
    ELSE IF v.k = "UnaryExpr" /\ v.xlit /\ v.op = "+"
    THEN [nil |-> FALSE, Kind |-> v.tk, Value |-> v.v]
    ELSE IF v.k = "UnaryExpr" /\ v.xlit /\ v.op = "-"
    THEN [nil |-> FALSE, Kind |-> v.tk, Value |-> <<"-">> \o v.v]
    ELSE [nil |-> TRUE, Kind |-> "", Value |-> <<>>]

\* the closure ident of decorStmtListToMap: the name of an *ast.Ident, else ""
ident(v) == IF v.k = "Ident" THEN v.v ELSE <<>>

BoolTexts == {<<"t", "r", "u", "e">>, <<"f", "a", "l", "s", "e">>}

\* the closure consumerKeyValue of decorStmtListToMap
consumerKeyValue(expr, items) ==
    LET key == ident(expr.key)
    IN  IF key = <<>>
        THEN [err |-> "invalid parameter name", items |-> items]
        ELSE IF expr.value.k \in {"BasicLit", "UnaryExpr"}
        THEN LET val == realBasicLit(expr.value)
             IN  IF val.nil
                 THEN [err |-> "invalid parameters value", items |-> items]
                 ELSE IF val.Kind \in {"STRING", "INT", "FLOAT"}
                 THEN LET r == put(items, key, val.Value)
                      IN  IF r.ok THEN [err |-> "", items |-> r.items]
                          ELSE [err |-> "duplicate parameters key", items |-> items]
                 ELSE [err |-> "invalid parameter type", items |-> items]
        ELSE IF expr.value.k = "Ident"
        THEN IF ident(expr.value) \notin BoolTexts
             THEN [err |-> "invalid parameter value, should be bool", items |-> items]
             ELSE LET r == put(items, key, ident(expr.value))
                  IN  IF r.ok THEN [err |-> "", items |-> r.items]
                      ELSE [err |-> "duplicate parameters key", items |-> items]
        ELSE [err |-> "invalid parameter value", items |-> items]

RECURSIVE decorStmtListToMap(_, _)
\* decorStmtListToMap: every element must be key: value; stops at the first error
decorStmtListToMap(exprList, items) ==
    IF exprList = <<>> THEN [err |-> "", items |-> items]
    ELSE IF ~Head(exprList).kv
    THEN [err |-> errUsedDecorSyntaxErrorInvalidP, items |-> items]
    ELSE LET r == consumerKeyValue(Head(exprList), items)
         IN  IF r.err # "" THEN r ELSE decorStmtListToMap(Tail(exprList), r.items)

\* getStmtList on the tokens of "map[any]any" + s: the expression that starts
\* with the map type, when it is the only statement of func(){ ... }()
MapStmtTokens(toks) ==
    WholeInput(toks,
        PrimaryAfterOperand(toks,
            [ok |-> TRUE, next |-> 1,
             node |-> Node("MapType", "", <<>>, "", FALSE, <<>>)]))

\* getStmtList("map[any]any" + s) as parseDecorParameterStringToExprList uses it
mapLiteralStmt(s) == MapStmtTokens(Scan(s, 1))

\* parseDecorParameterStringToExprList, after getStmtList
ExprListOf(stmt) ==
    IF ~stmt.ok \/ stmt.node.k # "CompositeLit" \/ stmt.node.elts = <<>>
    THEN [err |-> errUsedDecorSyntaxErrorInvalidP, list |-> <<>>]
    ELSE [err |-> "", list |-> stmt.node.elts]

\* parseDecorParameterStringToExprList: the elements of the composite literal
parseDecorParameterStringToExprList(s) == ExprListOf(mapLiteralStmt(s))

ParseResult(name, params, err) == [name |-> name, params |-> params, err |-> err]

\* parseDecorAndParameters, after decorStmtListToMap
MapResult(callName, m) == ParseResult(callName, m.items, m.err)

\* parseDecorAndParameters, after parseDecorParameterStringToExprList
ParamsOf(callName, el) ==
    IF el.err # "" THEN ParseResult(callName, EmptyMap, el.err)
    ELSE MapResult(callName, decorStmtListToMap(el.list, EmptyMap))

\* parseDecorAndParameters, after the name cAst is parsed and the parameter
\* text pStr is trimmed
AfterName(s, cAst, pStr) ==
    IF ~cAst.ok \/ cAst.node.k \notin {"SelectorExpr", "Ident"}
    THEN ParseResult(<<>>, EmptyMap, errUsedDecorSyntaxError)
    ELSE IF cAst.node.v = <<>>
    THEN ParseResult(cAst.node.v, EmptyMap, errUsedDecorSyntaxErrorLossFunc)
    ELSE IF pStr = <<>>
    THEN IF HasSuffix(s, <<"#">>)
         THEN ParseResult(cAst.node.v, EmptyMap, errUsedDecorSyntaxError)
         ELSE ParseResult(cAst.node.v, EmptyMap, "")
    ELSE IF pStr[1] # "{" \/ pStr[Len(pStr)] # "}"
    THEN ParseResult(cAst.node.v, EmptyMap, errUsedDecorSyntaxError)
    ELSE IF Len(pStr) = 2
    THEN ParseResult(cAst.node.v, EmptyMap, "")
    ELSE IF Len(pStr) < 5
    THEN ParseResult(cAst.node.v, EmptyMap, errUsedDecorSyntaxError)
    ELSE ParamsOf(cAst.node.v, parseDecorParameterStringToExprList(pStr))

\* parseDecorAndParameters
parseDecorAndParameters(s) ==
    IF s = <<>> THEN ParseResult(<<>>, EmptyMap, errUsedDecorSyntaxErrorLossFunc)
    ELSE AfterName(s, ParseExprString(Cut(s, "#").before),
                   TrimSpace(Cut(s, "#").after))

(***************************************************************************)
(* SpecParse: directive payloads written from a structured description,    *)
(* then handed to parseDecorAndParameters.                                 *)
(***************************************************************************)
MaxPairs == 2

NameForms == {<<"f">>, <<"g", ".", "f">>}

\* keys: two identifiers and one that is not an identifier
IdentKeys == {<<"a">>, <<"k">>}
KeyForms == IdentKeys \cup {<<"1">>}

\* values: string, integer, float and boolean literals, signed or not ...
LiteralValues ==
    {<<"1">>, <<"-", "1">>, <<"+", "1">>, <<"1", ".", "5">>, <<"-", "1", ".", "5">>,
     <<"\"", "k", "\"">>, <<"t", "r", "u", "e">>, <<"f", "a", "l", "s", "e">>}
\* ... and values that are none of these: a name, a rune, a difference, a
\* nested block
OtherValues ==
    {<<"k">>, <<"'", "k", "'">>, <<"1", "-", "1">>, <<"{", "}">>}
ValueForms == LiteralValues \cup OtherValues

\* what follows the name: nothing, a parameter block, or one of the malformed
\* continuations after '#'
MalformedTails ==
    {<<"#">>, <<"#", " ">>, <<"#", "k">>, <<"#", "{", "a", "}">>,
     <<"#", "{", "a", ":", "1">>, <<"#", "a", ":", "1", "}">>}
TailKinds == {"name", "block", "malformed", "empty"}

Sp(sp) == IF sp = 1 THEN <<" ">> ELSE <<>>

RECURSIVE RenderPairs(_, _)
RenderPairs(ps, sp) ==
    IF ps = <<>> THEN <<>>
    ELSE Head(ps).key \o <<":">> \o Sp(sp) \o Head(ps).val
         \o (IF Tail(ps) = <<>> THEN <<>>
             ELSE <<",">> \o Sp(sp) \o RenderPairs(Tail(ps), sp))

\* the payload text of a directive description
Render(d) ==
    IF d.kind = "empty" THEN <<>>
    ELSE IF d.kind = "name" THEN d.name
    ELSE IF d.kind = "malformed" THEN d.name \o d.tail
    ELSE d.name \o <<"#", "{">> \o RenderPairs(d.pairs, d.sp) \o <<"}">>

PairSeqs == UNION {[1..n -> [key : KeyForms, val : ValueForms]] : n \in 0..MaxPairs}

Directives ==
    {[kind |-> "block", name |-> n, tail |-> <<>>, pairs |-> ps, sp |-> sp] :
        n \in NameForms, ps \in PairSeqs, sp \in {0, 1}}
    \cup {[kind |-> "malformed", name |-> n, tail |-> t, pairs |-> <<>>, sp |-> 0] :
        n \in NameForms, t \in MalformedTails}
    \cup {[kind |-> k, name |-> n, tail |-> <<>>, pairs |-> <<>>, sp |-> 0] :
        n \in NameForms, k \in {"name", "empty"}}

NoParse == ParseResult(<<>>, EmptyMap, "")

LintIdle ==
    /\ decor = <<>> /\ annotation = EmptyMap /\ checked = <<>> /\ lpc = "idle"

CompileIdle ==
    /\ types = <<>> /\ funcs = <<>> /\ imp = <<>> /\ cpc = "idle" /\ cur = 0
    /\ collDecors = <<>> /\ step = 0 /\ fatal = "" /\ errPos = <<>>
    /\ imports = <<>> /\ updated = FALSE /\ staging = {}
    /\ compileArgs = <<>>

NoTarget == [params |-> <<>>, results |-> <<>>, body |-> "returns"]
NoContext == [TargetIn |-> <<>>, TargetOut |-> <<>>, doRef |-> 0]
NoHistory ==
    [calls |-> 0, funcRuns |-> 0, wrote |-> FALSE, args |-> <<>>]

CallIdle ==
    /\ target = NoTarget /\ ctx = NoContext /\ rpc = "idle"
    /\ hist = NoHistory /\ ret = <<>>

GenIdle ==
    /\ fdecl = <<>> /\ gi = <<>> /\ ras = <<>> /\ genStmts = <<>>
    /\ genDecors = <<>> /\ wcfOk = FALSE /\ gpc = "idle"

LoadIdle == loaderPkg = <<>> /\ loads = <<>>

ImportIdle == astImports = <<>> /\ built = <<>> /\ ipc = "idle"

LettersIdle == text = <<>> /\ letters = FALSE /\ tpc = "idle"

ToolsIdle == GenIdle /\ LoadIdle /\ ImportIdle /\ LettersIdle

InitParse ==
    /\ directive \in Directives
    /\ payload = Render(directive)
    /\ parsed = NoParse
    /\ ppc = "ready"
    /\ LintIdle
    /\ CompileIdle
    /\ CallIdle
    /\ ToolsIdle

\* compile, scan loop: the payload of a directive line is parsed
Parse ==
    /\ ppc = "ready"
    /\ parsed' = parseDecorAndParameters(payload)
    /\ ppc' = "done"
    /\ UNCHANGED <<directive, payload, lintVars, compileVars, callVars, toolVars>>

\* logs.Error: reports the message and ends the process
logsError(msg) == fatal' = msg

\* compile, scan loop: a parse error is reported with logs.Error
ParseFatal ==
    /\ ppc = "done"
    /\ parsed.err # ""
    /\ logsError(parsed.err)
    /\ ppc' = "fatal"
    /\ UNCHANGED <<directive, payload, parsed, lintVars,
                   types, funcs, imp, cpc, cur, collDecors, step, errPos, emitVars,
                   callVars, toolVars>>

\* newDecorAnnotation
newDecorAnnotation(name, parameters) == [name |-> name, parameters |-> parameters]

\* compile, scan loop: a parsed directive joins the chain of its target
Collect ==
    /\ ppc = "done"
    /\ parsed.err = ""
    /\ collDecors' = Append(collDecors, newDecorAnnotation(parsed.name, parsed.params))
    /\ ppc' = "collected"
    /\ UNCHANGED <<directive, payload, parsed, lintVars,
                   types, funcs, imp, cpc, cur, step, fatal, errPos, emitVars,
                   callVars, toolVars>>

NextParse == Parse \/ ParseFatal \/ Collect

SpecParse == InitParse /\ [][NextParse]_vars

(***************************************************************************)
(* Claims about the directive parser, checked under SpecParse.             *)
(***************************************************************************)
Keys(ps) == {ps[i].key : i \in 1..Len(ps)}

DistinctKeys(ps) == \A i, j \in 1..Len(ps) : ps[i].key = ps[j].key => i = j

\* a parameter block of key: literal pairs with distinct identifier keys
WellFormedBlock(d) ==
    /\ d.kind = "block"
    /\ DistinctKeys(d.pairs)
    /\ \A i \in 1..Len(d.pairs) :
          d.pairs[i].key \in IdentKeys /\ d.pairs[i].val \in LiteralValues

\* the text of a literal as the map holds it: the source text, a leading plus
\* sign (an operator, not part of the literal) left out
LiteralText(v) == IF Head(v) = "+" THEN Tail(v) ELSE v

\* C8: a well-formed payload Name#{k1: v1, ..., kn: vn} parses without error
\* to Name and a map with exactly the keys k1..kn, each mapped to the source
\* text of its literal (quotes and a minus sign kept); Name alone and Name#{}
\* give Name and the empty map.
C8_WellFormedPayloadParses ==
    (ppc # "ready" /\ (directive.kind = "name" \/ WellFormedBlock(directive))) =>
        /\ parsed.err = ""
        /\ parsed.name = directive.name
        /\ DOMAIN parsed.params = Keys(directive.pairs)
        /\ \A i \in 1..Len(directive.pairs) :
              parsed.params[directive.pairs[i].key] = LiteralText(directive.pairs[i].val)

\* a two-pair block with a negative number and a string was parsed
C8_Witness ==
    /\ ppc = "collected"
    /\ WellFormedBlock(directive)
    /\ Len(directive.pairs) = MaxPairs
    /\ directive.pairs[1].val = <<"-", "1">>
    /\ directive.pairs[2].val = <<"\"", "k", "\"">>
    /\ parsed.params[directive.pairs[1].key] = <<"-", "1">>

\* C9: the empty payload, and every payload whose name is followed by '#' but
\* not by a well-formed parameter block, is rejected with an error.
C9_MalformedPayloadFails ==
    (ppc # "ready" /\ directive.kind \in {"empty", "malformed"}) => parsed.err # ""

\* a block that repeats a key, has a value that is not a literal, or has a key
\* that is not an identifier
BadBlock(d) ==
    /\ d.kind = "block"
    /\ \/ ~DistinctKeys(d.pairs)
       \/ \E i \in 1..Len(d.pairs) : d.pairs[i].val \in OtherValues
       \/ \E i \in 1..Len(d.pairs) : d.pairs[i].key \notin IdentKeys

\* C10: a parameter block with a repeated key, a value that is not a string,
\* integer, float or boolean literal, or a key that is not an identifier makes
\* parseDecorAndParameters return an error, and the directive never joins the
\* chain of its target.
C10_BadBlockRejected ==
    (ppc # "ready" /\ BadBlock(directive)) =>
        /\ parsed.err # ""
        /\ ppc # "collected"
        /\ collDecors = <<>>

\* a block whose only defect is a repeated key ended the run
C10_Witness ==
    /\ ppc = "fatal"
    /\ Len(directive.pairs) = MaxPairs
    /\ ~DistinctKeys(directive.pairs)
    /\ \A i \in 1..Len(directive.pairs) :
          directive.pairs[i].key \in IdentKeys /\ directive.pairs[i].val \in LiteralValues
    /\ fatal = "duplicate parameters key"

(***************************************************************************)
(* Lint rule engine (checker.go, transformer.go).  Types are the strings   *)
(* typeString prints; numbers are kept in tenths, so 1.5 is 15.            *)
(***************************************************************************)
msgLintArgsNotFound == "lint arg key not found: "
msgLintTypeNotMatch == "lint key type not match"
errCalledDecorNotDecorator == "used decor is not a decorator function"
errLintSyntaxError == "syntax error using go:decor-lint"
msgDecorPkgNotFound == "decor package is not found"

decorLintScanFlag ==
    <<"/", "/", "g", "o", ":", "d", "e", "c", "o", "r", "-", "l", "i", "n", "t", " ">>

\* the keys of decorOptionParamTypeMap, as they are spelled there
decorOptionParamTypeMap ==
    [t \in {"bool", "int", "int8", "in16", "int32", "int64",
            "unit", "unit8", "unit16", "unit32", "unit64",
            "float32", "float64", "string"} |->
        IF t = "bool" THEN "IsBoolean"
        ELSE IF t \in {"float32", "float64"} THEN "IsFloat"
        ELSE IF t = "string" THEN "IsString"
        ELSE "IsInteger"]

\* decorArg.typeKind
typeKind(typ) ==
    IF typ \in DOMAIN decorOptionParamTypeMap
    THEN decorOptionParamTypeMap[typ] ELSE "IsUntyped"

lintCpGt == <<"g", "t">>
lintCpGte == <<"g", "t", "e">>
lintCpLt == <<"l", "t">>
lintCpLte == <<"l", "t", "e">>
lintRequiredRangeAllowKeyMap == {lintCpGt, lintCpGte, lintCpLt, lintCpLte}

DigitVal ==
    [c \in Digits |->
        CASE c = "0" -> 0 [] c = "1" -> 1 [] c = "2" -> 2 [] c = "3" -> 3
          [] c = "4" -> 4 [] c = "5" -> 5 [] c = "6" -> 6 [] c = "7" -> 7
          [] c = "8" -> 8 [] c = "9" -> 9]

RECURSIVE DecimalValue(_)
\* the number a run of digits writes
DecimalValue(ds) ==
    IF ds = <<>> THEN 0
    ELSE DecimalValue(SubSeq(ds, 1, Len(ds) - 1)) * 10 + DigitVal[ds[Len(ds)]]

\* strconv.ParseFloat(v, 64) on an optional sign, digits and at most one
\* fractional digit, in tenths; any other text here (a quoted string, true,
\* false, the empty text) is a syntax error, for which ParseFloat returns 0
ParseFloat(v) ==
    LET signed == Len(v) > 0 /\ v[1] \in {"+", "-"}
        body   == IF signed THEN Tail(v) ELSE v
        a      == RunEnd(body, 1, Digits)
        frac   == At(body, a) = "."
        b      == IF frac THEN RunEnd(body, a + 1, Digits) ELSE a
        mag    == DecimalValue(SubSeq(body, 1, a - 1)) * 10
                  + (IF frac /\ b = a + 2 THEN DigitVal[body[a + 1]] ELSE 0)
    IN  IF /\ body # <<>>
           /\ b = Len(body) + 1
           /\ (a > 1 \/ b > a + 1)
           /\ b <= a + 2
        THEN [ok |-> TRUE, val |-> IF signed /\ v[1] = "-" THEN 0 - mag ELSE mag]
        ELSE [ok |-> FALSE, val |-> 0]

EmptyCompare == [c \in {} |-> 0]

\* a nil *requiredLinter
NoRequired == [set |-> FALSE, enum |-> <<>>, compare |-> EmptyCompare]

\* decorArg
decorArg(index, name, typ, required, nonzero) ==
    [index |-> index, name |-> name, typ |-> typ,
     required |-> required, nonzero |-> nonzero]

\* requiredLinter.inEnum
inEnum(r, value) ==
    IF r.enum = <<>> THEN TRUE ELSE \E i \in 1..Len(r.enum) : r.enum[i] = value

\* the closure compare of passRequiredLint
compare(c, val, v) ==
    IF c = lintCpGt THEN val > v
    ELSE IF c = lintCpGte THEN val >= v
    ELSE IF c = lintCpLt THEN val < v
    ELSE IF c = lintCpLte THEN val <= v
    ELSE TRUE

\* passRequiredLint, the value converted for the comparisons
compareValue(d, value) ==
    IF typeKind(d.typ) = "IsString" THEN (Len(value) - 2) * 10
    ELSE ParseFloat(value).val

\* decorArg.passRequiredLint: "" when the value passes
passRequiredLint(d, value) ==
    IF ~d.required.set THEN ""
    ELSE IF ~inEnum(d.required, value) THEN "can't pass lint enum"
    ELSE IF DOMAIN d.required.compare = {} THEN ""
    ELSE IF \E c \in DOMAIN d.required.compare :
               ~compare(c, compareValue(d, value), d.required.compare[c])
    THEN "can't pass lint compare"
    ELSE ""

\* the closure isZero of passNonzeroLint
isZero(d, value) ==
    IF typeKind(d.typ) \in {"IsInteger", "IsFloat"} THEN ParseFloat(value).val = 0
    ELSE IF typeKind(d.typ) = "IsString" THEN value = <<"\"", "\"">>
    ELSE IF typeKind(d.typ) = "IsBoolean" THEN value = <<"f", "a", "l", "s", "e">>
    ELSE FALSE

\* decorArg.passNonzeroLint: "" when the value passes
passNonzeroLint(d, value) ==
    IF d.nonzero /\ isZero(d, value) THEN "can't pass nonzero lint" ELSE ""

\* the closure initRequiredLinter of obtainRequiredLinter
initRequiredLinter(d) == [d EXCEPT !.required.set = TRUE]

LintStep(err, dpt) == [err |-> err, dpt |-> dpt]

\* obtainRequiredLinter, a literal of the brace list: the enumeration grows
enumElt(rlit, dpt) ==
    IF rlit.nil THEN LintStep(errLintSyntaxError, dpt)
    ELSE IF \/ (rlit.Kind = "STRING" /\ typeKind(dpt.typ) # "IsString")
            \/ (rlit.Kind = "INT" /\ typeKind(dpt.typ) # "IsInteger")
            \/ (rlit.Kind = "FLOAT" /\ typeKind(dpt.typ) # "IsFloat")
    THEN LintStep(msgLintTypeNotMatch, dpt)
    ELSE LintStep("", [initRequiredLinter(dpt) EXCEPT
                          !.required.enum = Append(@, rlit.Value)])

\* obtainRequiredLinter, operator: literal with the number bound parsed
compareBound(key, bound, dpt) ==
    IF ~bound.ok THEN LintStep("lint required compare value canot be convert to float", dpt)
    ELSE LintStep("", [initRequiredLinter(dpt) EXCEPT
                          !.required.compare =
                              [c \in DOMAIN @ \cup {key} |->
                                  IF c = key THEN bound.val ELSE @[c]]])

\* obtainRequiredLinter, operator: literal of the brace list
compareElt(key, lity, dpt) ==
    IF lity.nil THEN LintStep(errLintSyntaxError, dpt)
    ELSE IF lity.Kind \notin {"FLOAT", "INT"}
    THEN LintStep("lint required compare must be int or float", dpt)
    ELSE compareBound(key, ParseFloat(lity.Value), dpt)

\* obtainRequiredLinter, one element of the brace list of a parameter
requiredElt(lit, dpt) ==
    IF lit.kv
    THEN IF lit.key.k # "Ident" THEN LintStep(errLintSyntaxError, dpt)
         ELSE IF typeKind(dpt.typ) = "IsBoolean"
         THEN LintStep("lint required key can't use compare", dpt)
         ELSE IF lit.key.v \notin lintRequiredRangeAllowKeyMap
         THEN LintStep("lint required key not allow", dpt)
         ELSE compareElt(lit.key.v, realBasicLit(lit.value), dpt)
    ELSE IF lit.value.k \in {"BasicLit", "UnaryExpr"}
    THEN enumElt(realBasicLit(lit.value), dpt)
    ELSE IF lit.value.k = "Ident"
    THEN IF lit.value.v \notin BoolTexts
         THEN LintStep("lint required key value must be true or false", dpt)
         ELSE LintStep("", [initRequiredLinter(dpt) EXCEPT
                               !.required.enum = Append(@, lit.value.v)])
    ELSE LintStep(errLintSyntaxError, dpt)

RECURSIVE requiredElts(_, _)

\* obtainRequiredLinter, the rest of the brace list after the step r
requiredEltsNext(rest, r) == IF r.err # "" THEN r ELSE requiredElts(rest, r.dpt)

\* obtainRequiredLinter, the loop over the brace list of a parameter
requiredElts(elts, dpt) ==
    IF elts = <<>> THEN LintStep("", dpt)
    ELSE requiredEltsNext(Tail(elts), requiredElt(Head(elts), dpt))

LintResult(err, args) == [err |-> err, args |-> args]

\* obtainRequiredLinter, the rule of parameter name stored after the loop r
storeArg(args, name, r) == LintResult(r.err, [args EXCEPT ![name] = r.dpt])

\* obtainRequiredLinter
obtainRequiredLinter(v, args) ==
    IF ~v.kv
    THEN IF v.value.k # "Ident" THEN LintResult(errLintSyntaxError, args)
         ELSE IF v.value.v \notin DOMAIN args THEN LintResult(msgLintArgsNotFound, args)
         ELSE LintResult("", [args EXCEPT ![v.value.v] = initRequiredLinter(@)])
    ELSE IF v.key.k # "Ident" THEN LintResult(errLintSyntaxError, args)
    ELSE IF v.key.v \notin DOMAIN args THEN LintResult(msgLintArgsNotFound, args)
    ELSE IF v.value.k # "CompositeLit" THEN LintResult(errLintSyntaxError, args)
    ELSE storeArg(args, v.key.v, requiredElts(v.value.elts, args[v.key.v]))

\* obtainNonzeroLinter
obtainNonzeroLinter(v, args) ==
    IF ~v.kv /\ v.value.k = "Ident"
    THEN IF v.value.v \notin DOMAIN args THEN LintResult(msgLintArgsNotFound, args)
         ELSE LintResult("", [args EXCEPT ![v.value.v].nonzero = TRUE])
    ELSE LintResult(errLintSyntaxError, args)

RECURSIVE requiredList(_, _)
RECURSIVE nonzeroList(_, _)

requiredListNext(rest, r) == IF r.err # "" THEN r ELSE requiredList(rest, r.args)

\* resolveLinterFromAnnotation, the loop over the entries of a required line
requiredList(exprList, args) ==
    IF exprList = <<>> THEN LintResult("", args)
    ELSE requiredListNext(Tail(exprList), obtainRequiredLinter(Head(exprList), args))

nonzeroListNext(rest, r) == IF r.err # "" THEN r ELSE nonzeroList(rest, r.args)

\* resolveLinterFromAnnotation, the loop over the entries of a nonzero line
nonzeroList(exprList, args) ==
    IF exprList = <<>> THEN LintResult("", args)
    ELSE nonzeroListNext(Tail(exprList), obtainNonzeroLinter(Head(exprList), args))

\* strings.TrimLeft(s, cutset): the leading characters of the cutset removed
TrimLeft(s, cutset) == SubSeq(s, RunEnd(s, 1, cutset), Len(s))

RequiredPrefix == <<"r", "e", "q", "u", "i", "r", "e", "d", ":", " ">>
NonzeroPrefix == <<"n", "o", "n", "z", "e", "r", "o", ":", " ">>
Chars(s) == {s[i] : i \in 1..Len(s)}

\* resolveLinterFromAnnotation, after parseDecorParameterStringToExprList
requiredEntries(el, args) ==
    IF el.err # "" THEN LintResult(errLintSyntaxError, args)
    ELSE requiredList(el.list, args)

nonzeroEntries(el, args) ==
    IF el.err # "" THEN LintResult(errLintSyntaxError, args)
    ELSE nonzeroList(el.list, args)

\* resolveLinterFromAnnotation
resolveLinterFromAnnotation(s, args) ==
    IF HasPrefix(s, RequiredPrefix)
    THEN requiredEntries(
             parseDecorParameterStringToExprList(TrimLeft(s, Chars(RequiredPrefix))), args)
    ELSE IF HasPrefix(s, NonzeroPrefix)
    THEN nonzeroEntries(
             parseDecorParameterStringToExprList(TrimLeft(s, Chars(NonzeroPrefix))), args)
    ELSE LintResult("invalid linter", args)

RECURSIVE lintLines(_, _, _)

lintLinesNext(doc, i, r) == IF r.err # "" THEN r ELSE lintLines(doc, i - 1, r.args)

\* parseLinterFromDocGroup, the loop from the last doc line upward
lintLines(doc, i, args) ==
    IF i < 1 THEN LintResult("", args)
    ELSE IF ~HasPrefix(doc[i], decorLintScanFlag) THEN LintResult("", args)
    ELSE lintLinesNext(doc, i,
             resolveLinterFromAnnotation(
                 SubSeq(doc[i], Len(decorLintScanFlag) + 1, Len(doc[i])), args))

\* parseLinterFromDocGroup
parseLinterFromDocGroup(doc, args) == lintLines(doc, Len(doc), args)

\* collDeclFuncParamsAnfTypes: name -> decorArg, indexed in declaration order;
\* a name declared again takes the place of the earlier entry
collDeclFuncParamsAnfTypes(fd) ==
    [n \in {fd.params[i].name : i \in 1..Len(fd.params)} |->
        LET i == CHOOSE j \in 1..Len(fd.params) :
                     /\ fd.params[j].name = n
                     /\ \A h \in (j + 1)..Len(fd.params) : fd.params[h].name # n
        IN  decorArg(i - 1, n, fd.params[i].typ, NoRequired, FALSE)]

Bound(err, value) == [err |-> err, value |-> value]

\* checkDecorAndGetParam, the default of an omitted parameter
defaultValue(v) ==
    IF typeKind(v.typ) = "IsInteger" THEN Bound("", <<"0">>)
    ELSE IF typeKind(v.typ) = "IsFloat" THEN Bound("", <<"0", ".", "0">>)
    ELSE IF typeKind(v.typ) = "IsString" THEN Bound("", <<"\"", "\"">>)
    ELSE IF typeKind(v.typ) = "IsBoolean" THEN Bound("", <<"f", "a", "l", "s", "e">>)
    ELSE Bound("unsupported types", <<>>)

\* checkDecorAndGetParam, the body of the loop over the parameters
bindParam(v, annotationMap) ==
    IF v.name \in DOMAIN annotationMap
    THEN IF passNonzeroLint(v, annotationMap[v.name]) # ""
         THEN Bound(passNonzeroLint(v, annotationMap[v.name]), <<>>)
         ELSE IF passRequiredLint(v, annotationMap[v.name]) # ""
         THEN Bound(passRequiredLint(v, annotationMap[v.name]), <<>>)
         ELSE Bound("", annotationMap[v.name])
    ELSE IF v.nonzero THEN Bound("can't pass nonzero lint, must have value", <<>>)
    ELSE defaultValue(v)

CheckResult(err, params) == [err |-> err, params |-> params]

RECURSIVE bindParams(_, _, _, _)

\* the run-time panic of an index expression out of the range of its slice
IndexOutOfRange == "panic: runtime error: index out of range"

\* checkDecorAndGetParam, the loop over the parameters: params[v.index] = value
bindParamsNext(order, m, annotationMap, params, index, b) ==
    IF b.err # "" THEN CheckResult(b.err, <<>>)
    ELSE IF index \notin DOMAIN params THEN CheckResult(IndexOutOfRange, <<>>)
    ELSE bindParams(order, m, annotationMap, [params EXCEPT ![index] = b.value])

\* checkDecorAndGetParam, the loop over the parameters; order is the order in
\* which range visits the map m; the result is params[1:]
bindParams(order, m, annotationMap, params) ==
    IF order = <<>>
    THEN CheckResult("", [i \in 1..(Cardinality(DOMAIN m) - 1) |-> params[i]])
    ELSE IF m[Head(order)].index = 0
    THEN bindParams(Tail(order), m, annotationMap, params)
    ELSE bindParamsNext(Tail(order), m, annotationMap, params, m[Head(order)].index,
                        bindParam(m[Head(order)], annotationMap))

\* checkDecorAndGetParam, after parseLinterFromDocGroup
afterLint(r, annotationMap, order) ==
    IF r.err # "" THEN CheckResult(r.err, <<>>)
    ELSE bindParams(order, r.args, annotationMap,
                    [i \in 0..(Cardinality(DOMAIN r.args) - 1) |-> <<>>])

\* a variant that rejects a directive key the decorator does not declare
checkDecorAndGetParamDeclaredKeys(d, annotationMap, order) ==
    IF \E key \in DOMAIN annotationMap :
          \A i \in 1..Len(d.params) : d.params[i].name # key
    THEN CheckResult(msgLintArgsNotFound, <<>>)
    ELSE
         IF ~d.found THEN CheckResult("decorator not found", <<>>)
         ELSE IF d.pkgName = "" THEN CheckResult(msgDecorPkgNotFound, <<>>)
         ELSE IF Cardinality(DOMAIN collDeclFuncParamsAnfTypes(d)) < 1
         THEN CheckResult(errCalledDecorNotDecorator, <<>>)
         ELSE IF \E n \in DOMAIN collDeclFuncParamsAnfTypes(d) :
                    /\ collDeclFuncParamsAnfTypes(d)[n].index = 0
                    /\ collDeclFuncParamsAnfTypes(d)[n].typ # "*" \o d.pkgName \o ".Context"
         THEN CheckResult("used decor is not a decorator function", <<>>)
         ELSE IF Cardinality(DOMAIN collDeclFuncParamsAnfTypes(d)) = 1
         THEN CheckResult("", <<>>)
         ELSE afterLint(parseLinterFromDocGroup(d.doc, collDeclFuncParamsAnfTypes(d)),
                        annotationMap, order)

\* checkDecorAndGetParam, after findFunc found the declaration d; pkgName is
\* the name under which its file imports the decor package ("" when it does not)
checkDecorAndGetParam(d, annotationMap, order) ==
    IF ~d.found THEN CheckResult("decorator not found", <<>>)
    ELSE IF d.pkgName = "" THEN CheckResult(msgDecorPkgNotFound, <<>>)
    ELSE IF Cardinality(DOMAIN collDeclFuncParamsAnfTypes(d)) < 1
    THEN CheckResult(errCalledDecorNotDecorator, <<>>)
    ELSE IF \E n \in DOMAIN collDeclFuncParamsAnfTypes(d) :
               /\ collDeclFuncParamsAnfTypes(d)[n].index = 0
               /\ collDeclFuncParamsAnfTypes(d)[n].typ # "*" \o d.pkgName \o ".Context"
    THEN CheckResult("used decor is not a decorator function", <<>>)
    ELSE IF Cardinality(DOMAIN collDeclFuncParamsAnfTypes(d)) = 1
    THEN CheckResult("", <<>>)
    ELSE afterLint(parseLinterFromDocGroup(d.doc, collDeclFuncParamsAnfTypes(d)),
                   annotationMap, order)

\* the orders in which range can visit the keys S of a map
RangeOrders(S) ==
    {o \in [1..Cardinality(S) -> S] : \A i, j \in 1..Cardinality(S) : o[i] = o[j] => i = j}

(***************************************************************************)
(* SpecLint: a decorator with its lint annotations and a directive's       *)
(* parameter map, handed to checkDecorAndGetParam.  The decorator's doc    *)
(* lines are written from a structured description kept in decor.lint.     *)
(***************************************************************************)
MaxElts == 2

\* the basic types a decorator parameter can be declared with
IntegerTypes ==
    {"int", "int8", "int16", "int32", "int64",
     "uint", "uint8", "uint16", "uint32", "uint64"}
FloatTypes == {"float32", "float64"}
TypeNames == IntegerTypes \cup FloatTypes \cup {"string", "bool"}

ParamA == <<"a">>
ParamK == <<"k">>

\* the entries a required brace list is written from: literals and bounds
EnumElements ==
    {<<"\"", "a", "\"">>, <<"\"", "\"">>, <<"1">>, <<"0">>, <<"t", "r", "u", "e">>}
BoundElements ==
    {<<"g", "t", ":", " ", "1">>, <<"l", "t", "e", ":", " ", "1">>}
LintElements == EnumElements \cup BoundElements

\* the values a directive supplies for the parameter
SuppliedValues ==
    {<<"0">>, <<"1">>, <<"2">>, <<"0", ".", "0">>, <<"1", ".", "5">>,
     <<"\"", "\"">>, <<"\"", "a", "\"">>, <<"\"", "a", "k", "\"">>,
     <<"t", "r", "u", "e">>, <<"f", "a", "l", "s", "e">>}

RECURSIVE Join(_, _)
\* the texts of ss separated by sep
Join(ss, sep) ==
    IF ss = <<>> THEN <<>>
    ELSE IF Len(ss) = 1 THEN ss[1]
    ELSE ss[1] \o sep \o Join(Tail(ss), sep)

\* the doc lines of a decorator whose lint rules are described by l
LintDoc(l) ==
    (IF l.kind = "none" THEN <<>>
     ELSE IF l.kind = "bare"
     THEN <<decorLintScanFlag \o RequiredPrefix \o <<"{", "a", "}">> >>
     ELSE <<decorLintScanFlag \o RequiredPrefix \o <<"{", "a", ":", " ", "{">>
            \o Join(l.elts, <<",", " ">>) \o <<"}", "}">> >>)
    \o (IF l.nonzero THEN <<decorLintScanFlag \o NonzeroPrefix \o <<"{", "a", "}">> >>
        ELSE <<>>)
    \o (IF l.shadowed THEN << <<"/", "/", " ", "k">> >> ELSE <<>>)

EltSeqs == UNION {[1..n -> LintElements] : n \in 0..MaxElts}

LintDescriptions ==
    {[kind |-> "list", elts |-> es, nonzero |-> nz, shadowed |-> FALSE] :
        es \in EltSeqs, nz \in BOOLEAN}
    \cup {[kind |-> k, elts |-> <<>>, nonzero |-> nz, shadowed |-> sh] :
        k \in {"none", "bare"}, nz \in BOOLEAN, sh \in BOOLEAN}

ContextParam == [name |-> <<"c", "t", "x">>, typ |-> "*decor.Context"]

\* a decorator func(ctx *decor.Context, a <typ>[, k bool]) with lint rules l
Decorator(typ, second, l) ==
    [found |-> TRUE, pkgName |-> "decor",
     params |-> <<ContextParam, [name |-> ParamA, typ |-> typ]>>
                \o (IF second THEN <<[name |-> ParamK, typ |-> "bool"]>> ELSE <<>>),
     doc |-> LintDoc(l), lint |-> l]

NoLint == [kind |-> "none", elts |-> <<>>, nonzero |-> FALSE, shadowed |-> FALSE]

\* declarations that are no usable decorator
BrokenDecorators ==
    {[Decorator("int", FALSE, NoLint) EXCEPT !.found = FALSE],
     [Decorator("int", FALSE, NoLint) EXCEPT !.pkgName = ""],
     [Decorator("int", FALSE, NoLint) EXCEPT !.pkgName = "k"],
     [Decorator("int", FALSE, NoLint) EXCEPT !.params = <<>>],
     [Decorator("int", FALSE, NoLint) EXCEPT !.params = <<ContextParam>>],
     [Decorator("int", FALSE, NoLint) EXCEPT !.params = Tail(@)]}

\* decorators that discard parameters:
\* func(ctx *decor.Context, _ int), func(ctx *decor.Context, _ int, _ string),
\* func(_ *decor.Context, _ int)
Discarded(typ) == [name |-> <<"_">>, typ |-> typ]

DiscardingDecorators ==
    {[Decorator("int", FALSE, NoLint) EXCEPT !.params = ps] :
        ps \in {<<ContextParam, Discarded("int")>>,
                <<ContextParam, Discarded("int"), Discarded("string")>>,
                <<Discarded("*decor.Context"), Discarded("int")>>}}

Decorators ==
    {Decorator(t, FALSE, l) : t \in TypeNames, l \in LintDescriptions}
    \cup {Decorator(t, TRUE, [NoLint EXCEPT !.nonzero = nz]) :
            t \in TypeNames, nz \in BOOLEAN}
    \cup BrokenDecorators
    \cup DiscardingDecorators

\* a key that no decorator declares
ParamU == <<"u">>

\* the parameter maps of the directives: a and k supplied or left out, and
\* the key u supplied with or without a
AnnotationsOf(d) ==
    {EmptyMap} \cup {[x \in {ParamA} |-> v] : v \in SuppliedValues}
    \cup (IF Len(d.params) = 3
          THEN {[x \in {ParamK} |-> <<"t", "r", "u", "e">>]}
               \cup {[x \in {ParamA, ParamK} |->
                        IF x = ParamA THEN v ELSE <<"t", "r", "u", "e">>] :
                     v \in SuppliedValues}
          ELSE {})
    \cup {[x \in {ParamU} |-> <<"1">>]}
    \cup {[x \in {ParamA, ParamU} |-> IF x = ParamA THEN v ELSE <<"1">>] :
            v \in {<<"0">>, <<"2">>, <<"\"", "a", "\"">>}}

NoCheck == CheckResult("", <<>>)

ParseIdle ==
    /\ directive = <<>> /\ payload = <<>> /\ parsed = NoParse /\ ppc = "idle"

InitLint ==
    /\ decor \in Decorators
    /\ annotation \in AnnotationsOf(decor)
    /\ checked = NoCheck
    /\ lpc = "ready"
    /\ ParseIdle
    /\ CompileIdle
    /\ CallIdle
    /\ ToolsIdle

\* compile, chain loop: the parameters of a directive are checked against the
\* decorator's declaration and bound in declaration order
Check ==
    /\ lpc = "ready"
    /\ \E order \in RangeOrders({decor.params[i].name : i \in 1..Len(decor.params)}) :
          checked' = checkDecorAndGetParam(decor, annotation, order)
    /\ lpc' = "done"
    /\ UNCHANGED <<decor, annotation, parseVars, compileVars, callVars, toolVars>>

\* compile, chain loop: a check error is reported with logs.Error
CheckFatal ==
    /\ lpc = "done"
    /\ checked.err # ""
    /\ logsError(checked.err)
    /\ lpc' = "fatal"
    /\ UNCHANGED <<decor, annotation, checked, parseVars,
                   types, funcs, imp, cpc, cur, collDecors, step, errPos, emitVars,
                   callVars, toolVars>>

NextLint == Check \/ CheckFatal

SpecLint == InitLint /\ [][NextLint]_vars

(***************************************************************************)
(* Claims about the lint rule engine, checked under SpecLint.  What a      *)
(* claim expects is computed from the description decor.lint and from the  *)
(* Go type of the parameter, not from the engine's own tables.             *)
(***************************************************************************)
\* the kind of a Go basic type
GoKind(typ) ==
    IF typ \in IntegerTypes THEN "integer"
    ELSE IF typ \in FloatTypes THEN "float"
    ELSE IF typ = "string" THEN "string"
    ELSE "bool"

\* the kind of a literal, from its text
LiteralKind(v) ==
    IF v[1] = "\"" THEN "string"
    ELSE IF v \in BoolTexts THEN "bool"
    ELSE IF "." \in Chars(v) THEN "float"
    ELSE "integer"

\* the zero literal of a kind
ZeroLiteral(kind) ==
    IF kind = "integer" THEN <<"0">>
    ELSE IF kind = "float" THEN <<"0", ".", "0">>
    ELSE IF kind = "string" THEN <<"\"", "\"">>
    ELSE <<"f", "a", "l", "s", "e">>

DeclaredEnum(l) == {l.elts[i] : i \in 1..Len(l.elts)} \cap EnumElements
DeclaredBounds(l) == {l.elts[i] : i \in 1..Len(l.elts)} \cap BoundElements

\* the numeric form of a literal, in tenths: a number converts directly, a
\* string to its length without the quotes
NumericForm(v) ==
    IF LiteralKind(v) = "string" THEN (Len(v) - 2) * 10 ELSE ParseFloat(v).val

\* gt: 1 and lte: 1, in tenths
BoundHolds(e, n) == IF e[1] = "g" THEN n > 10 ELSE n <= 10

\* the rule is one the parameter's type admits: enumerated literals of the
\* parameter's kind, and no bounds on a bool
RuleFits(l, typ) ==
    /\ \A e \in DeclaredEnum(l) : LiteralKind(e) = GoKind(typ)
    /\ (DeclaredBounds(l) # {} => GoKind(typ) # "bool")

\* checkDecorAndGetParam has run on a usable decorator whose lint lines count
LintCase ==
    /\ lpc # "ready"
    /\ decor.found /\ decor.pkgName = "decor"
    /\ Len(decor.params) >= 2 /\ decor.params[1] = ContextParam
    /\ ~decor.lint.shadowed

TypeOfA == decor.params[2].typ

Supplied == ParamA \in DOMAIN annotation

\* the value for a has the kind of a's type
SuppliedFits == Supplied /\ LiteralKind(annotation[ParamA]) = GoKind(TypeOfA)

\* what the required rule of decor.lint says about the supplied value
RequiredRuleAdmits ==
    /\ (DeclaredEnum(decor.lint) = {} \/ annotation[ParamA] \in DeclaredEnum(decor.lint))
    /\ \A e \in DeclaredBounds(decor.lint) : BoundHolds(e, NumericForm(annotation[ParamA]))

\* C4: a value supplied for a parameter with a required rule passes validation
\* if and only if it is one of the enumerated literals (when any are declared)
\* and every declared bound holds for its numeric form (a number directly, a
\* string by its length without the quotes).
C4_RequiredRuleDecides ==
    (/\ LintCase
     /\ decor.lint.kind \in {"bare", "list"} /\ ~decor.lint.nonzero
     /\ RuleFits(decor.lint, TypeOfA)
     /\ SuppliedFits) =>
        (checked.err = "" <=> RequiredRuleAdmits)

\* the same statement for the parameter types decorOptionParamTypeMap knows
RequiredRuleDecidesKnownTypes ==
    (LintCase => TypeOfA \in DOMAIN decorOptionParamTypeMap) => C4_RequiredRuleDecides

\* C5: with an enumeration and no nonzero, omitting the parameter binds the
\* zero default only when the default is enumerated, and fails otherwise
\* (stated for the parameter types decorOptionParamTypeMap knows).
C5_OmittedEnumParameter ==
    (/\ LintCase
     /\ DeclaredEnum(decor.lint) # {} /\ ~decor.lint.nonzero
     /\ RuleFits(decor.lint, TypeOfA)
     /\ TypeOfA \in DOMAIN decorOptionParamTypeMap
     /\ ~Supplied) =>
        /\ checked.err = "" <=> ZeroLiteral(GoKind(TypeOfA)) \in DeclaredEnum(decor.lint)
        /\ checked.err = "" => checked.params[1] = ZeroLiteral(GoKind(TypeOfA))

\* C6: for a parameter declared nonzero, validation fails when the parameter
\* is omitted, fails when the supplied value is the zero form of its type, and
\* succeeds for any other value.
C6_NonzeroParameter ==
    (/\ LintCase
     /\ decor.lint.kind = "none" /\ decor.lint.nonzero
     /\ (Supplied => SuppliedFits)) =>
        IF ~Supplied THEN checked.err # ""
        ELSE IF annotation[ParamA] = ZeroLiteral(GoKind(TypeOfA)) THEN checked.err # ""
        ELSE checked.err = ""

\* the same statement for the parameter types decorOptionParamTypeMap knows
NonzeroParameterKnownTypes ==
    (LintCase => TypeOfA \in DOMAIN decorOptionParamTypeMap) => C6_NonzeroParameter

\* C7: an omitted parameter that is not declared nonzero does not fail the
\* check and is bound to the zero literal of its declared type.
C7_OmittedParameterDefault ==
    (/\ LintCase
     /\ decor.lint.kind = "none" /\ ~decor.lint.nonzero
     /\ ~Supplied) =>
        /\ checked.err = ""
        /\ checked.params[1] = ZeroLiteral(GoKind(TypeOfA))

\* the same statement for the parameter types decorOptionParamTypeMap knows
OmittedParameterDefaultKnownTypes ==
    (LintCase => TypeOfA \in DOMAIN decorOptionParamTypeMap) => C7_OmittedParameterDefault

\* the literal supplied for a cannot be a value of a's type (an integer
\* literal is a float constant as well)
KindMismatch ==
    /\ Supplied
    /\ LiteralKind(annotation[ParamA]) # GoKind(TypeOfA)
    /\ ~(LiteralKind(annotation[ParamA]) = "integer" /\ GoKind(TypeOfA) = "float")

\* C13: a directive that supplies a literal whose kind does not match the
\* declared type of the parameter (a string for an int, an integer for a
\* bool) fails the check of the directive with an error.
C13_KindMismatchFails ==
    (LintCase /\ KindMismatch) => checked.err # ""

\* checkDecorAndGetParam has run on the decorator and has not returned an
\* error
NoErrorReturned ==
    lpc # "ready" /\ decor.found /\ checked.err \in {"", IndexOutOfRange}

\* the value a directive binds to the parameter p: the one it supplies, or
\* the zero literal of the parameter's type
BoundValue(p) ==
    IF p.name \in DOMAIN annotation THEN annotation[p.name]
    ELSE ZeroLiteral(GoKind(p.typ))

\* C19: unless it returns an error, checkDecorAndGetParam returns a list with
\* one entry for every declared parameter after the context, and entry i - 1
\* is the value bound to the parameter declared at index i (0-based), whatever
\* the order in which the parameters are visited.
C19_ArgumentsInDeclarationOrder ==
    NoErrorReturned =>
        /\ checked.err = ""
        /\ Len(checked.params) = Len(decor.params) - 1
        /\ \A i \in 1..(Len(decor.params) - 1) :
              checked.params[i] = BoundValue(decor.params[i + 1])

\* the same statement for decorators whose parameters have different names
DeclarationOrderDistinctNames ==
    (\A i, j \in 1..Len(decor.params) :
        decor.params[i].name = decor.params[j].name => i = j) =>
        C19_ArgumentsInDeclarationOrder

\* the keys of the directive that name no declared parameter of the decorator
UnknownKeys ==
    {key \in DOMAIN annotation :
        \A i \in 1..Len(decor.params) : decor.params[i].name # key}

\* the directive without those keys
DeclaredOnly == [key \in DOMAIN annotation \ UnknownKeys |-> annotation[key]]

\* C29: a directive key that names no declared parameter of the decorator has
\* no effect: the check returns what it returns for the directive without
\* that key, the argument list when it succeeds and the error when it fails.
C29_UnknownKeyIgnored ==
    (lpc # "ready" /\ UnknownKeys # {}) =>
        \E order \in RangeOrders({decor.params[i].name : i \in 1..Len(decor.params)}) :
            checked = checkDecorAndGetParam(decor, DeclaredOnly, order)

C29_Witness ==
    /\ lpc = "done"
    /\ DOMAIN annotation = {ParamA, ParamU}
    /\ Len(decor.params) = 2
    /\ decor.params[2] = [name |-> ParamA, typ |-> "int"]
    /\ annotation[ParamA] = <<"2">>
    /\ checked = CheckResult("", << <<"2">> >>)

(***************************************************************************)
(* compile (compile.go): type-level propagation, scanning of the doc       *)
(* comments, chain weaving.  A doc comment is the sequence of its lines;   *)
(* a nil comment group is the empty sequence.                              *)
(***************************************************************************)
decoratorScanFlag == <<"/", "/", "g", "o", ":", "d", "e", "c", "o", "r", " ">>
decoratorPackagePath == "github.com/dengsgo/go-decorator/decor"
msgDecorPkgNotImported == "decorator used but package not imported"
msgCantUsedOnDecoratorFunc == "decorators cannot be used on decorators"

RECURSIVE reverseSlice(_)
reverseSlice(ele) ==
    IF ele = <<>> THEN <<>> ELSE Append(reverseSlice(Tail(ele)), Head(ele))

RECURSIVE collDecorComments(_, _, _)
\* findAndCollDecorComments, the loop from the last line upward
collDecorComments(list, i, comments) ==
    IF i < 1 THEN comments
    ELSE IF ~HasPrefix(list[i], decoratorScanFlag) THEN comments
    ELSE collDecorComments(list, i - 1, Append(comments, list[i]))

\* the closure findAndCollDecorComments of typeDecorRebuild
findAndCollDecorComments(cg) == reverseSlice(collDecorComments(cg, Len(cg), <<>>))

\* typeDecorRebuild, the comments collected for one type spec
typeSpecComments(spec) ==
    findAndCollDecorComments(spec.doc) \o findAndCollDecorComments(spec.typeDoc)

TypeMap(err, pos, m) == [err |-> err, pos |-> pos, m |-> m]

\* typeDecorRebuild, the visitor of the type specs: one spec visited
collTypeSpec(spec, r) ==
    IF spec.doc = <<>> /\ spec.typeDoc = <<>> THEN r
    ELSE IF Len(typeSpecComments(spec)) = 0 THEN r
    ELSE IF spec.name \in DOMAIN r.m
    THEN IF r.err = ""
         THEN TypeMap("duplicate type definition: " \o spec.name, spec.namePos, r.m)
         ELSE r
    ELSE TypeMap(r.err, r.pos, [n \in DOMAIN r.m \cup {spec.name} |->
                                   IF n = spec.name THEN typeSpecComments(spec)
                                   ELSE r.m[n]])

RECURSIVE typeNameMapDecorComments(_, _)
\* typeDecorRebuild, the loop over the type specs: name -> directive comments,
\* and the first error
typeNameMapDecorComments(specs, r) ==
    IF specs = <<>> THEN r
    ELSE typeNameMapDecorComments(Tail(specs), collTypeSpec(Head(specs), r))

\* a variant that does not know pointer receivers with type arguments
identNameNoPointerIndex(expr) ==
    IF expr.star
    THEN IF expr.form = "Ident" THEN expr.name ELSE ""
    ELSE IF expr.form \in {"Ident", "IndexListExpr", "IndexExpr"} THEN expr.name
    ELSE ""

\* the closure identName of typeDecorRebuild; a receiver type expression is
\* the node kind of the type (form), its identifier, and whether a StarExpr
\* is around it
identName(expr) ==
    IF expr.star
    THEN IF expr.form \in {"Ident", "IndexExpr", "IndexListExpr"} THEN expr.name ELSE ""
    ELSE IF expr.form \in {"Ident", "IndexListExpr", "IndexExpr"} THEN expr.name
    ELSE ""

\* typeDecorRebuild, the visitor of the function declarations
rebuildDecl(decl, m) ==
    IF ~decl.hasRecv THEN decl
    ELSE IF identName(decl.recv) = "" THEN decl
    ELSE IF identName(decl.recv) \notin DOMAIN m THEN decl
    ELSE [decl EXCEPT !.doc = @ \o m[identName(decl.recv)]]

\* typeDecorRebuild, after the type specs were visited
rebuildDecls(decls, r) ==
    IF r.err # "" THEN [err |-> r.err, pos |-> r.pos, decls |-> decls]
    ELSE [err |-> "", pos |-> 0, decls |-> [i \in 1..Len(decls) |-> rebuildDecl(decls[i], r.m)]]

\* typeDecorRebuild
typeDecorRebuild(specs, decls) ==
    rebuildDecls(decls, typeNameMapDecorComments(specs, TypeMap("", 0, EmptyMap)))

\* the outcome of the scan loop: the error, the positions reported with it,
\* and collDecors
ScanResult(err, pos, coll) == [err |-> err, pos |-> pos, coll |-> coll]

RECURSIVE scanDoc(_, _, _, _)

\* (a doc line is known by its index in fd.Doc.List, which is its position)
\* a variant that lets a decorator join the chain a second time
scanLineRepeating(list, i, mapDecors, coll, r) ==
    IF r.err # "" THEN ScanResult(r.err, <<i>>, coll)
    ELSE scanDoc(list, i - 1, putOverwriting(mapDecors, r.name, i).items,
                 Append(coll, newDecorAnnotation(r.name, r.params)))

\* compile, scan loop: the directive parsed from line i joins the chain
scanLine(list, i, mapDecors, coll, r) ==
    IF r.err # "" THEN ScanResult(r.err, <<i>>, coll)
    ELSE IF ~put(mapDecors, r.name, i).ok
    THEN ScanResult("cannot use the same decorator for repeated decoration",
                    <<i, mapDecors[r.name]>>, coll)
    ELSE scanDoc(list, i - 1, put(mapDecors, r.name, i).items,
                 Append(coll, newDecorAnnotation(r.name, r.params)))

\* a variant that passes over the lines without the prefix
scanDocSkipping(list, i, mapDecors, coll) ==
    IF i < 1 THEN ScanResult("", <<>>, coll)
    ELSE IF ~HasPrefix(list[i], decoratorScanFlag)
    THEN scanDoc(list, i - 1, mapDecors, coll)
    ELSE scanLine(list, i, mapDecors, coll,
             parseDecorAndParameters(
                 SubSeq(list[i], Len(decoratorScanFlag) + 1, Len(list[i]))))

\* compile, scan loop: the doc lines of a function from the last one upward
scanDoc(list, i, mapDecors, coll) ==
    IF i < 1 THEN ScanResult("", <<>>, coll)
    ELSE IF ~HasPrefix(list[i], decoratorScanFlag) THEN ScanResult("", <<>>, coll)
    ELSE scanLine(list, i, mapDecors, coll,
             parseDecorAndParameters(
                 SubSeq(list[i], Len(decoratorScanFlag) + 1, Len(list[i]))))

\* compile, chain loop: the directive handled by the iteration step of
\* for _, da := range collDecors, ranged from the last element
rangeCollDecorsReversed(coll, i) == coll[Len(coll) + 1 - i]

\* compile, chain loop: the directive handled by the iteration step of
\* for _, da := range collDecors
rangeCollDecors(coll, i) == coll[i]

\* funIsDecorator with the package name taken as decor
funIsDecoratorFixedName(fd, pkgName) ==
    /\ pkgName # ""
    /\ ~fd.hasRecv
    /\ Len(fd.params) = 1
    /\ fd.params[1] = "*decor.Context"

\* funIsDecorator; params holds the printed type of every declared parameter
funIsDecorator(fd, pkgName) ==
    /\ pkgName # ""
    /\ ~fd.hasRecv
    /\ Len(fd.params) = 1
    /\ fd.params[1] = "*" \o pkgName \o ".Context"

\* strings.Split(decorName, "."), the number of parts
SplitParts(name) == Cardinality({i \in 1..Len(name) : name[i] = "."}) + 1

\* decorX
decorX(decorName) ==
    IF SplitParts(decorName) # 2 THEN <<>> ELSE Cut(decorName, ".").before

\* filepath.Ext(funName) without its dot, or funName when it has no dot
ExtName(funName) ==
    IF \A i \in 1..Len(funName) : funName[i] # "." THEN funName
    ELSE SubSeq(funName,
                (CHOOSE i \in 1..Len(funName) :
                    /\ funName[i] = "."
                    /\ \A j \in (i + 1)..Len(funName) : funName[j] # ".") + 1,
                Len(funName))

\* importer.importedPath(decoratorPackagePath), after the rewrite of a blank
\* import by the chain loop
pkgDecorName(i) == IF i.pathMap = "_" THEN "decor" ELSE i.pathMap

\* compile, chain loop: the import table after the decor package was looked up
markImported(i) == [i EXCEPT !.pathMap = pkgDecorName(i)]

\* the packages findTarget can load: the package being compiled ("") declares
\* f(ctx *decor.Context, a int) and g(ctx *decor.Context); the package m/g
\* declares f(ctx *d.Context) in a file that imports the decor package as d,
\* and g(a int)
NotFound == [Decorator("int", FALSE, NoLint) EXCEPT !.found = FALSE, !.params = <<>>]
DeclF == Decorator("int", FALSE, NoLint)
DeclG == [Decorator("int", FALSE, NoLint) EXCEPT !.params = <<ContextParam>>]
DeclD ==
    [Decorator("int", FALSE, NoLint) EXCEPT
        !.pkgName = "d",
        !.params = <<[name |-> <<"c", "t", "x">>, typ |-> "*d.Context"]>>]
DeclU ==
    [Decorator("int", FALSE, NoLint) EXCEPT
        !.pkgName = "d", !.params = <<[name |-> ParamA, typ |-> "int"]>>]

\* pkgLoader.findTarget
findTarget(pkgPath, funName) ==
    IF pkgPath = "" /\ ExtName(funName) = <<"f">> THEN DeclF
    ELSE IF pkgPath = "" /\ ExtName(funName) = <<"g">> THEN DeclG
    ELSE IF pkgPath = "m/g" /\ ExtName(funName) = <<"f">> THEN DeclD
    ELSE IF pkgPath = "m/g" /\ ExtName(funName) = <<"g">> THEN DeclU
    ELSE NotFound

\* pkgLoader.findFunc
findFunc(pkgPath, funName) == findTarget(pkgPath, funName)

\* compile, chain loop: decorPkgPath
decorPkgPath(i, decorName) ==
    IF decorX(decorName) = <<>> THEN "" ELSE i.nameMap[decorX(decorName)]

ParamNames(d) == {d.params[j].name : j \in 1..Len(d.params)}

\* a variant that looks the decorator up whatever the file imports
resolveDecorUnimported(fd, da, i) ==
    IF funIsDecorator(fd, pkgDecorName(i))
    THEN [err |-> msgCantUsedOnDecoratorFunc, d |-> NotFound]
    ELSE IF decorX(da.name) # <<>> /\ decorX(da.name) \notin DOMAIN i.nameMap
    THEN [err |-> "package not found", d |-> NotFound]
    ELSE [err |-> "", d |-> findFunc(decorPkgPath(i, da.name), da.name)]

\* compile, chain loop, up to checkDecorAndGetParam: the declaration the
\* directive da resolves to, or the error reported before it is looked up
resolveDecor(fd, da, i) ==
    IF i.pathMap = "" THEN [err |-> msgDecorPkgNotImported, d |-> NotFound]
    ELSE IF funIsDecorator(fd, pkgDecorName(i))
    THEN [err |-> msgCantUsedOnDecoratorFunc, d |-> NotFound]
    ELSE IF decorX(da.name) # <<>> /\ decorX(da.name) \notin DOMAIN i.nameMap
    THEN [err |-> "package not found", d |-> NotFound]
    ELSE [err |-> "", d |-> findFunc(decorPkgPath(i, da.name), da.name)]

\* compile, chain loop: checkDecorAndGetParam on the resolved declaration
checkResolved(r, da, order) ==
    IF r.err # "" THEN CheckResult(r.err, <<>>)
    ELSE checkDecorAndGetParam(r.d, da.parameters, order)

\* compile, chain loop: one iteration on the function fd with the directive da
chainStep(fd, da, i, order) == checkResolved(resolveDecor(fd, da, i), da, order)

\* replaceTpl: the package name written in "&decor.Context{" and in
\* "decor.${.TKind}"
replaceTplPackage == "decor"

\* compile, chain loop: fd.Body.List = genStmts; a body is the sequence of
\* the generated wrappers around the original statements, the outermost first
replaceBody(fd, da, params) ==
    [fd EXCEPT !.body = <<[name |-> da.name, params |-> params,
                           pkg |-> replaceTplPackage]>> \o @]

(***************************************************************************)
(* Spec: one compilation unit (type declarations, function declarations    *)
(* with their doc comments laid out in files, the import table of the      *)
(* files) carried through compile, file by file, up to the files written   *)
(* to the staging directory and the compiler arguments.                    *)
(***************************************************************************)
MaxDoc == 2
MaxFuncs == 2
MaxFiles == 2

CommentLine == <<"/", "/", " ", "k">>
Dir(p) == decoratorScanFlag \o p

DirF == Dir(<<"f">>)
DirG == Dir(<<"g">>)

\* directive lines: f, g, f with its parameter, a malformed payload, a name
\* that is not declared, a decorator and a plain function of the package
\* imported as g
DirectiveLines ==
    {DirF, DirG,
     Dir(<<"f", "#", "{", "a", ":", " ", "1", "}">>),
     Dir(<<"f", "#">>),
     Dir(<<"e">>),
     Dir(<<"g", ".", "f">>),
     Dir(<<"g", ".", "g">>)}

DocsOver(lines) == UNION {[1..n -> lines] : n \in 0..MaxDoc}

NoRecv == [star |-> FALSE, form |-> "None", name |-> ""]

\* receivers T, T[K], T[K, V] and pointers to them; U and *U
ReceiverTypes ==
    {[star |-> st, form |-> f, name |-> "T"] :
        st \in BOOLEAN, f \in {"Ident", "IndexExpr", "IndexListExpr"}}
    \cup {[star |-> st, form |-> "Ident", name |-> "U"] : st \in BOOLEAN}

\* a function declaration: own is the doc comment as written in the source,
\* doc is decl.Doc.List, file is the file that declares it (files are numbered
\* in the order in which range pkg.Files visits them)
FuncDecl(recv, params, doc) ==
    [hasRecv |-> recv # NoRecv, recv |-> recv, params |-> params,
     own |-> doc, doc |-> doc, body |-> <<>>, file |-> 1]

ParamLists ==
    {<<"int">>, <<"*decor.Context">>, <<"*d.Context">>, <<"*decor.Context", "int">>}

PlainFunc == FuncDecl(NoRecv, <<"int">>, <<DirG>>)

\* a comment that begins like a directive without being one: //go:decorf
NearDirective == <<"/", "/", "g", "o", ":", "d", "e", "c", "o", "r", "f">>

\* functions and methods on T: with an int parameter and every doc comment,
\* and with every parameter list and the doc comments over a few lines
WovenDecls ==
    {FuncDecl(r, <<"int">>, doc) :
        r \in {NoRecv, [star |-> FALSE, form |-> "Ident", name |-> "T"]},
        doc \in DocsOver(DirectiveLines \cup {CommentLine, NearDirective})}
    \cup {FuncDecl(r, ps, doc) :
            r \in {NoRecv, [star |-> FALSE, form |-> "Ident", name |-> "T"]},
            ps \in ParamLists,
            doc \in DocsOver({DirF, DirG, Dir(<<"f", "#">>), CommentLine})}

\* methods and functions with a short doc comment of their own
MethodDecls ==
    {FuncDecl(r, <<"int">>, doc) :
        r \in ReceiverTypes \cup {NoRecv},
        doc \in {<<>>, <<CommentLine>>, <<DirG>>}}

\* a method on *T and a function, both without a doc comment
PointerMethod ==
    FuncDecl([star |-> TRUE, form |-> "Ident", name |-> "T"], <<"int">>, <<>>)
BareFunc == FuncDecl(NoRecv, <<"int">>, <<>>)

\* a type spec; namePos is spec.Name.NamePos, its rank among the type specs
TypeSpec(name, doc, typeDoc) ==
    [name |-> name, doc |-> doc, typeDoc |-> typeDoc, namePos |-> 0]

Positioned(specs) == [k \in 1..Len(specs) |-> [specs[k] EXCEPT !.namePos = k]]

\* type T with directives in its doc comment and in the doc comment of its
\* declaration group, alone, followed by U, or declared a second time
TypeDecls ==
    {Positioned(<<TypeSpec("T", doc, typeDoc)>> \o more) :
        doc \in {<<>>, <<DirF>>, <<CommentLine, DirF>>, <<DirF, CommentLine>>,
                 <<DirF, DirG>>},
        typeDoc \in {<<>>, <<DirG>>},
        more \in {<<>>, <<TypeSpec("U", <<DirG>>, <<>>)>>,
                  <<TypeSpec("T", <<DirG>>, <<>>)>>,
                  <<TypeSpec("T", <<>>, <<>>)>>}}

Importer(name, nameMap) == [pathMap |-> name, nameMap |-> nameMap]

\* the file imports the decor package as decor, as d, blank, or not at all,
\* and may import the package m/g as g
Importers ==
    {Importer(n, EmptyMap) : n \in {"decor", "d", "_", ""}}
    \cup {Importer("decor", [x \in {<<"g">>} |-> "m/g"])}

\* sequences of declarations with at most one taken outside rest
DeclSeqs(varied, rest) ==
    UNION {{[q EXCEPT ![k] = v] :
              q \in [1..n -> rest], k \in 1..n, v \in varied \cup rest} :
           n \in 1..MaxFuncs}

\* the declarations q laid out in at most MaxFiles files: a new file starts
\* after each declaration of cuts
InFiles(q) ==
    {[i \in 1..Len(q) |->
         [q[i] EXCEPT !.file = 1 + Cardinality({c \in cuts : c < i})]] :
     cuts \in {c \in SUBSET (1..(Len(q) - 1)) : Cardinality(c) < MaxFiles}}

Files(decls) == {decls[i].file : i \in 1..Len(decls)}

\* the compiler arguments name the source files of the unit; every file of
\* the unit imports the same packages
Init ==
    /\ \/ /\ types = <<>>
          /\ \E i \in Importers, q \in DeclSeqs(WovenDecls, {PlainFunc}) :
                /\ funcs \in InFiles(q)
                /\ imports = [f \in 1..MaxFiles |-> i]
                /\ imp = i
       \/ /\ types \in TypeDecls
          /\ \E q \in DeclSeqs(MethodDecls, {PointerMethod, BareFunc}) :
                funcs \in InFiles(q)
          /\ imports = [f \in 1..MaxFiles |-> Importer("decor", EmptyMap)]
          /\ imp = Importer("decor", EmptyMap)
    /\ compileArgs = [f \in 1..MaxFiles |-> "origin"]
    /\ updated = FALSE
    /\ staging = {}
    /\ cpc = "rebuild"
    /\ cur = 0
    /\ collDecors = <<>>
    /\ step = 0
    /\ fatal = ""
    /\ errPos = <<>>
    /\ ParseIdle
    /\ LintIdle
    /\ CallIdle
    /\ ToolsIdle

\* logs.Error with the positions printed after the message
logsErrorAt(msg, pos) == logsError(msg) /\ errPos' = pos

\* funcs[cur] is the last declaration of its file
lastOfFile == cur = Len(funcs) \/ funcs[cur + 1].file # funcs[cur].file

\* visitAstDecl: the visitor moves on to the declaration after funcs[cur], or
\* returns after the last declaration of the file
nextDecl ==
    IF cur >= 1 /\ lastOfFile
    THEN cur' = cur /\ cpc' = "emit"
    ELSE cur' = cur + 1 /\ cpc' = "scan"

\* compile: typeDecorRebuild hands the directives of the types to the methods
Rebuild ==
    /\ cpc = "rebuild"
    /\ typeDecorRebuild(types, funcs).err = ""
    /\ funcs' = typeDecorRebuild(types, funcs).decls
    /\ nextDecl
    /\ UNCHANGED <<types, imp, collDecors, step, fatal, errPos, emitVars,
                   parseVars, lintVars, callVars, toolVars>>

\* compile: an error of typeDecorRebuild is reported with logs.Error
RebuildFatal ==
    /\ cpc = "rebuild"
    /\ typeDecorRebuild(types, funcs).err # ""
    /\ logsErrorAt(typeDecorRebuild(types, funcs).err,
                   <<typeDecorRebuild(types, funcs).pos>>)
    /\ cpc' = "fatal"
    /\ UNCHANGED <<types, funcs, imp, cur, collDecors, step, emitVars,
                   parseVars, lintVars, callVars, toolVars>>

\* compile, the visitor on funcs[cur] after its scan loop returned r
scanned(r) ==
    /\ r.err = ""
    /\ collDecors' = r.coll
    /\ IF Len(r.coll) = 0
       THEN nextDecl /\ step' = 0
       ELSE cpc' = "chain" /\ step' = 1 /\ cur' = cur
    /\ UNCHANGED <<types, funcs, imp, fatal, errPos, emitVars, parseVars, lintVars,
                   callVars, toolVars>>

\* compile, scan loop on the doc comment of funcs[cur]
ScanDoc ==
    /\ cpc = "scan"
    /\ scanned(scanDoc(funcs[cur].doc, Len(funcs[cur].doc), EmptyMap, <<>>))

\* compile, scan loop: a parse error or a repeated decorator is reported with
\* logs.Error
ScanFatal ==
    /\ cpc = "scan"
    /\ scanDoc(funcs[cur].doc, Len(funcs[cur].doc), EmptyMap, <<>>).err # ""
    /\ logsErrorAt(scanDoc(funcs[cur].doc, Len(funcs[cur].doc), EmptyMap, <<>>).err,
                   scanDoc(funcs[cur].doc, Len(funcs[cur].doc), EmptyMap, <<>>).pos)
    /\ cpc' = "fatal"
    /\ UNCHANGED <<types, funcs, imp, cur, collDecors, step, emitVars,
                   parseVars, lintVars, callVars, toolVars>>

\* compile, chain loop: the iteration ended with the result r of chainStep on
\* the directive da and the body of funcs[cur] is replaced
woven(da, r) ==
    /\ r.err = ""
    /\ funcs' = [funcs EXCEPT ![cur] = replaceBody(@, da, r.params)]
    /\ imp' = markImported(imp)
    /\ updated' = TRUE
    /\ IF step = Len(collDecors)
       THEN nextDecl /\ step' = 0
       ELSE step' = step + 1 /\ cur' = cur /\ cpc' = cpc
    /\ UNCHANGED <<types, collDecors, fatal, errPos, imports, staging, compileArgs,
                   parseVars, lintVars, callVars, toolVars>>

\* compile, chain loop: one directive of the chain is applied to funcs[cur]
Weave ==
    /\ cpc = "chain"
    /\ \E order \in RangeOrders(ParamNames(
                      resolveDecor(funcs[cur], rangeCollDecors(collDecors, step), imp).d)) :
          woven(rangeCollDecors(collDecors, step),
                chainStep(funcs[cur], rangeCollDecors(collDecors, step), imp, order))

\* compile, chain loop: the iteration ended with the error of r, reported
\* with logs.Error (the positions it prints are not followed here)
notWoven(r) ==
    /\ r.err # ""
    /\ logsError(r.err)
    /\ cpc' = "fatal"
    /\ imp' = IF imp.pathMap = "" THEN imp ELSE markImported(imp)
    /\ UNCHANGED <<types, funcs, cur, collDecors, step, errPos, emitVars,
                   parseVars, lintVars, callVars, toolVars>>

\* compile, chain loop: a directive that cannot be applied ends the run
WeaveFatal ==
    /\ cpc = "chain"
    /\ \E order \in RangeOrders(ParamNames(
                      resolveDecor(funcs[cur], rangeCollDecors(collDecors, step), imp).d)) :
          notWoven(chainStep(funcs[cur], rangeCollDecors(collDecors, step), imp, order))

\* printerCfg.Fprint on a declaration of the file: the doc comment group is
\* printed as it is in the file's comments, a group created by typeDecorRebuild
\* is not among them
printed(fd) ==
    [doc |-> IF fd.own = <<>> THEN <<>> ELSE fd.doc, body |-> fd.body,
     hasRecv |-> fd.hasRecv, recv |-> fd.recv, params |-> fd.params]

\* the text written for file f: its imports, as the chain loop left them, and
\* its declarations in order
Fprint(f) ==
    [file |-> f,
     imports |-> imp,
     decls |-> [k \in 1..Cardinality({i \in 1..Len(funcs) : funcs[i].file = f}) |->
                   printed(funcs[k + Cardinality({i \in 1..Len(funcs) :
                                                      funcs[i].file < f})])]]

\* compile, after the visitor returned from the file of funcs[cur]: a file
\* with a replaced body is printed to the staging directory and takes the
\* place of its source in the compiler arguments; the loop goes on with the
\* next file
Emit ==
    /\ cpc = "emit"
    /\ IF updated
       THEN /\ staging' = staging \cup {Fprint(funcs[cur].file)}
            /\ compileArgs' = [compileArgs EXCEPT ![funcs[cur].file] = "tmp"]
       ELSE UNCHANGED <<staging, compileArgs>>
    /\ cur' = cur + 1
    /\ IF cur = Len(funcs)
       THEN cpc' = "done" /\ UNCHANGED <<imp, updated>>
       ELSE /\ cpc' = "scan"
            /\ imp' = imports[funcs[cur + 1].file]
            /\ updated' = FALSE
    /\ UNCHANGED <<types, funcs, collDecors, step, fatal, errPos, imports,
                   parseVars, lintVars, callVars, toolVars>>

Next ==
    Rebuild \/ RebuildFatal \/ ScanDoc \/ ScanFatal \/ Weave \/ WeaveFatal \/ Emit

Spec == Init /\ [][Next]_vars

(***************************************************************************)
(* SpecCall: one call of a woven function at run time.  The body generated *)
(* from replaceTpl builds a decor.Context, hands it to the decorator and   *)
(* returns what the context holds; the decorator prepares TargetIn, then   *)
(* makes any sequence of TargetDo calls and of writes to TargetOut; it     *)
(* writes entries and assigns shorter or longer slices.  hist records what *)
(* the decorator did and what the original body was called with.           *)
(***************************************************************************)
MaxParams == 1
MaxResults == 2
MaxCalls == 3

\* result types of the target, the zero value of each and the value the
\* original body returns for it
ResultTypes == {"int", "string", "error"}

Zero(typ) ==
    CASE typ = "int" -> "0"
      [] typ = "string" -> "\"\""
      [] typ = "error" -> "nil"

BodyValue(typ) ==
    CASE typ = "int" -> "1"
      [] typ = "string" -> "\"a\""
      [] typ = "error" -> "err"

\* a value stored as any: its dynamic type and the value
Box(typ, val) == [typ |-> typ, val |-> val]

Values == UNION {{Box(t, Zero(t)), Box(t, BodyValue(t))} : t \in ResultTypes}

\* the value the woven function is called with for a parameter
ArgValue(typ) == BodyValue(typ)

\* the woven functions: without parameters and with up to MaxResults results,
\* or with up to MaxParams parameters and an int result; the original body
\* returns or panics
Targets ==
    {[params |-> <<>>, results |-> rs, body |-> b] :
        rs \in UNION {[1..n -> ResultTypes] : n \in 0..MaxResults},
        b \in {"returns", "panics"}}
    \cup {[params |-> ps, results |-> <<"int">>, body |-> b] :
            ps \in UNION {[1..n -> {"int", "string"}] : n \in 1..MaxParams},
            b \in {"returns", "panics"}}

\* replaceTpl with TargetOut filled from the values the body returns
newContextEvaluated(t) ==
    [TargetIn |-> [i \in 1..Len(t.params) |-> Box(t.params[i], ArgValue(t.params[i]))],
     TargetOut |-> [i \in 1..Len(t.results) |->
                       Box(t.results[i], BodyValue(t.results[i]))],
     doRef |-> 0]

\* replaceTpl, the context construction: TargetIn holds the arguments of the
\* call, TargetOut the named results of the woven function, which are zero
\* when it is entered
newContext(t) ==
    [TargetIn |-> [i \in 1..Len(t.params) |-> Box(t.params[i], ArgValue(t.params[i]))],
     TargetOut |-> [i \in 1..Len(t.results) |-> Box(t.results[i], Zero(t.results[i]))],
     doRef |-> 0]

\* the state after a run of Func: the context, the number of runs of Func,
\* whether the run panicked, the arguments the original body was called with
World(d, runs, panics, args) ==
    [ctx |-> d, runs |-> runs, panics |-> panics, args |-> args]

\* builderReplaceArgs, one argument of the call of the original body:
\* func() T {o, _ := ctx.TargetIn[i].(T); return o}()
DecorCallIn(d, typ, i) ==
    IF d.TargetIn[i].typ = typ THEN d.TargetIn[i].val ELSE Zero(typ)

\* replaceTpl, the closure assigned to Func: the arguments are read from
\* TargetIn (an index beyond its length panics before the body runs), the
\* original body runs, and its results are assigned to the entries of
\* TargetOut from left to right (an index beyond its length panics after the
\* entries before it were assigned); a panic of the body leaves TargetOut alone
Func(t, d, runs) ==
    IF Len(d.TargetIn) < Len(t.params) THEN World(d, runs + 1, TRUE, <<>>)
    ELSE IF t.body = "panics"
    THEN World(d, runs + 1, TRUE,
               [i \in 1..Len(t.params) |-> DecorCallIn(d, t.params[i], i)])
    ELSE World([d EXCEPT !.TargetOut =
                   [i \in 1..Len(d.TargetOut) |->
                       IF i <= Len(t.results)
                       THEN Box(t.results[i], BodyValue(t.results[i]))
                       ELSE d.TargetOut[i]]],
               runs + 1, Len(d.TargetOut) < Len(t.results),
               [i \in 1..Len(t.params) |-> DecorCallIn(d, t.params[i], i)])

\* Context.TargetDo that does not count the call
TargetDoUncounted(t, d, runs) == Func(t, d, runs)

\* Context.TargetDo
TargetDo(t, d, runs) == Func(t, [d EXCEPT !.doRef = @ + 1], runs)

\* Context.DoRef
DoRef(d) == d.doRef

\* replaceTpl, one operand of the return statement:
\* func() T {o, _ := ctx.TargetOut[i].(T); return o}()
DecorCallOut(d, typ, i) ==
    IF d.TargetOut[i].typ = typ THEN d.TargetOut[i].val ELSE Zero(typ)

InitCall ==
    /\ target \in Targets
    /\ ctx = NoContext
    /\ rpc = "ready"
    /\ hist = NoHistory
    /\ ret = <<>>
    /\ ParseIdle
    /\ LintIdle
    /\ CompileIdle
    /\ ToolsIdle

\* the woven function is entered: the context is built and the decorator called
Enter ==
    /\ rpc = "ready"
    /\ ctx' = newContext(target)
    /\ rpc' = "decor"
    /\ UNCHANGED <<target, hist, ret, parseVars, lintVars, compileVars, toolVars>>

\* the decorator calls ctx.TargetDo(); a panic of Func ends the decorator,
\* which recovers from it or not
CallTargetDo ==
    /\ rpc = "decor"
    /\ hist.calls < MaxCalls
    /\ ctx' = TargetDo(target, ctx, hist.funcRuns).ctx
    /\ hist' = [hist EXCEPT !.calls = @ + 1,
                            !.funcRuns = TargetDo(target, ctx, hist.funcRuns).runs,
                            !.args = TargetDo(target, ctx, hist.funcRuns).args]
    /\ IF TargetDo(target, ctx, hist.funcRuns).panics
       THEN rpc' \in {"recovered", "panicked"}
       ELSE rpc' = rpc
    /\ UNCHANGED <<target, ret, parseVars, lintVars, compileVars, toolVars>>

\* the values a decorator stores in TargetIn
InValues == {Box("int", "0"), Box("string", "\"a\"")}

\* the decorator stores a value in ctx.TargetIn before it calls TargetDo (an
\* entry it has appended keeps its value)
SetIn ==
    /\ rpc = "decor"
    /\ hist.calls = 0
    /\ \E i \in 1..Min({Len(ctx.TargetIn), Len(target.params)}), v \in InValues :
          ctx' = [ctx EXCEPT !.TargetIn[i] = v]
    /\ UNCHANGED <<target, rpc, hist, ret, parseVars, lintVars, compileVars, toolVars>>

\* the decorator stores a value in ctx.TargetOut (an entry it has appended
\* keeps its value)
SetOut ==
    /\ rpc = "decor"
    /\ \E i \in 1..Min({Len(ctx.TargetOut), Len(target.results)}), v \in Values :
          ctx' = [ctx EXCEPT !.TargetOut[i] = v]
    /\ hist' = [hist EXCEPT !.wrote = TRUE]
    /\ UNCHANGED <<target, rpc, ret, parseVars, lintVars, compileVars, toolVars>>

\* s[:len(s)-1] and append(s, 0), up to one entry more than declared is
\* followed
Resized(s, declared) ==
    (IF s # <<>> THEN {SubSeq(s, 1, Len(s) - 1)} ELSE {})
    \cup (IF Len(s) <= Len(declared) THEN {Append(s, Box("int", "0"))} ELSE {})

\* the decorator assigns a shorter or a longer slice to ctx.TargetIn, before
\* it calls TargetDo, or to ctx.TargetOut
Resize ==
    /\ rpc = "decor"
    /\ \/ /\ hist.calls = 0
          /\ \E s \in Resized(ctx.TargetIn, target.params) :
                ctx' = [ctx EXCEPT !.TargetIn = s]
          /\ hist' = hist
       \/ /\ \E s \in Resized(ctx.TargetOut, target.results) :
                ctx' = [ctx EXCEPT !.TargetOut = s]
          /\ hist' = [hist EXCEPT !.wrote = TRUE]
    /\ UNCHANGED <<target, rpc, ret, parseVars, lintVars, compileVars, toolVars>>

\* the decorator returned and the woven function returns the values of
\* TargetOut; an index beyond the length of TargetOut panics
Return ==
    /\ rpc \in {"decor", "recovered"}
    /\ IF Len(ctx.TargetOut) < Len(target.results)
       THEN rpc' = "panicked" /\ ret' = ret
       ELSE /\ ret' = [i \in 1..Len(target.results) |->
                         DecorCallOut(ctx, target.results[i], i)]
            /\ rpc' = "done"
    /\ UNCHANGED <<target, ctx, hist, parseVars, lintVars, compileVars, toolVars>>

NextCall == Enter \/ CallTargetDo \/ SetIn \/ SetOut \/ Resize \/ Return

SpecCall == InitCall /\ [][NextCall]_vars

\* C17: at every moment of a call, DoRef is the number of TargetDo calls made
\* so far on the context, and the original body has run once for each of them.
C17_DoRefCountsCalls ==
    rpc \in {"decor", "recovered", "panicked", "done"} =>
        /\ DoRef(ctx) = hist.calls
        /\ hist.funcRuns = hist.calls

C17_Witness ==
    /\ rpc = "done"
    /\ hist.calls = MaxCalls
    /\ DoRef(ctx) = MaxCalls
    /\ hist.funcRuns = MaxCalls

DynamicTypes(s) == [i \in 1..Len(s) |-> s[i].typ]

\* C26: a decorator that changes the dynamic type or the number of the
\* entries of TargetIn or TargetOut makes the woven function panic: a call
\* that returns has read TargetIn, in its TargetDo calls, and TargetOut, at
\* its return statement, with the declared types and the declared number of
\* entries.
C26_TypeOrCountChangePanics ==
    rpc = "done" =>
        /\ DynamicTypes(ctx.TargetOut) = target.results
        /\ hist.calls > 0 => DynamicTypes(ctx.TargetIn) = target.params

\* the part of the statement that holds: an entry that is missing when it is
\* read makes the woven function panic
MissingEntryPanics ==
    /\ rpc = "done" => Len(ctx.TargetOut) >= Len(target.results)
    /\ (hist.calls > 0 /\ Len(ctx.TargetIn) < Len(target.params)) =>
          /\ rpc # "decor"
          /\ hist.args = <<>>

(***************************************************************************)
(* Claims about compile, checked under Spec.  What a claim expects is read *)
(* from the declarations as written (the lines of the doc comments, the    *)
(* receiver, the parameter list), not from the engine's own operators.     *)
(***************************************************************************)
\* the directive lines at the end of a doc comment, in source order
TrailingDirectives(doc) ==
    SubSeq(doc,
           Min({k \in 1..(Len(doc) + 1) :
                   \A j \in k..Len(doc) : doc[j] \in DirectiveLines}),
           Len(doc))

\* the decorator a well-formed directive line names
DirectiveName(line) ==
    IF line \in {DirF, Dir(<<"f", "#", "{", "a", ":", " ", "1", "}">>)} THEN <<"f">>
    ELSE SubSeq(line, Len(decoratorScanFlag) + 1, Len(line))

WellFormedLines == DirectiveLines \ {Dir(<<"f", "#">>)}

\* the lines are well-formed directives that name different decorators
WellFormedChain(lines) ==
    /\ \A j \in 1..Len(lines) : lines[j] \in WellFormedLines
    /\ \A j, k \in 1..Len(lines) :
          DirectiveName(lines[j]) = DirectiveName(lines[k]) => j = k

\* the visitor has left funcs[i] behind: its chain was applied completely
Passed(i) ==
    cur > i \/ (cpc = "emit" /\ cur = i) \/ (cpc = "done" /\ i <= Len(funcs))

\* funcs[i] carries exactly two directives, A above B
TwoDirectives(i) ==
    /\ Len(TrailingDirectives(funcs[i].doc)) = 2
    /\ WellFormedChain(TrailingDirectives(funcs[i].doc))

DirectiveA(i) == TrailingDirectives(funcs[i].doc)[1]
DirectiveB(i) == TrailingDirectives(funcs[i].doc)[2]

\* the wrapper around the original statements, and the wrapper entered first
Innermost(i) == funcs[i].body[Len(funcs[i].body)]
Outermost(i) == funcs[i].body[1]

Propagated == cur >= 1

Lines(doc) == {doc[j] : j \in 1..Len(doc)}

\* the directives attached to the declarations of the type called name
AttachedDirectives(name) ==
    UNION {Lines(TrailingDirectives(types[k].doc))
             \cup Lines(TrailingDirectives(types[k].typeDoc)) :
           k \in {j \in 1..Len(types) : types[j].name = name}}

\* the directives of the receiver's type; none for a plain function
ReceiverDirectives(fd) ==
    IF fd.hasRecv THEN AttachedDirectives(fd.recv.name) ELSE {}

\* C2: after type-level propagation every directive attached to the
\* declaration of a type T is in the directive chain of every method whose
\* receiver is T, by value, by pointer or with type arguments, and the doc
\* comment of a declaration gains nothing but the directives of its own
\* receiver type: a plain function and a method of another type gain none of
\* T's directives.
C2_TypeDirectivesReachMethods ==
    Propagated =>
        /\ \A i \in 1..Len(funcs) :
              /\ ReceiverDirectives(funcs[i]) \subseteq Lines(TrailingDirectives(funcs[i].doc))
              /\ SubSeq(funcs[i].doc, 1, Len(funcs[i].own)) = funcs[i].own
              /\ \A j \in (Len(funcs[i].own) + 1)..Len(funcs[i].doc) :
                    funcs[i].doc[j] \in ReceiverDirectives(funcs[i])
        /\ cpc = "chain" =>
              \A line \in ReceiverDirectives(funcs[cur]) :
                  \E j \in 1..Len(collDecors) : collDecors[j].name = DirectiveName(line)

C2_Witness ==
    /\ cpc = "chain"
    /\ Len(funcs) = 2
    /\ funcs[cur].recv = [star |-> TRUE, form |-> "IndexExpr", name |-> "T"]
    /\ funcs[cur].own = <<CommentLine>>
    /\ AttachedDirectives("T") = {DirF, DirG}
    /\ AttachedDirectives("U") = {DirG}
    /\ Len(collDecors) = 2
    /\ \E i \in 1..Len(funcs) : ~funcs[i].hasRecv /\ funcs[i].doc = <<>>

\* the alias under which the file imports the decor package, if it has one
HasAlias == imp.pathMap \notin {"", "_"}

\* the sole parameter of fd has the context-carrying type *<alias>.Context
DecoratorShaped(fd) ==
    /\ HasAlias
    /\ ~fd.hasRecv
    /\ \/ (imp.pathMap = "decor" /\ fd.params = <<"*decor.Context">>)
       \/ (imp.pathMap = "d" /\ fd.params = <<"*d.Context">>)

\* C3: a function whose sole parameter has the type *<alias>.Context is never
\* woven: its body is never replaced, the run never gets past it when it
\* carries a directive, and when its directives are well formed the run ends
\* on it with the error "decorators cannot be used on decorators".
C3_DecoratorNeverWoven ==
    \A i \in 1..Len(funcs) :
        DecoratorShaped(funcs[i]) =>
            /\ funcs[i].body = <<>>
            /\ TrailingDirectives(funcs[i].doc) # <<>> => ~Passed(i)
            /\ (/\ cpc = "fatal" /\ cur = i
                /\ WellFormedChain(TrailingDirectives(funcs[i].doc))) =>
                  fatal = msgCantUsedOnDecoratorFunc

C3_Witness ==
    /\ cpc = "fatal"
    /\ fatal = msgCantUsedOnDecoratorFunc
    /\ cur = 2
    /\ DecoratorShaped(funcs[cur])
    /\ funcs[cur].params = <<"*d.Context">>
    /\ Len(TrailingDirectives(funcs[cur].doc)) = 2
    /\ funcs[cur].body = <<>>
    /\ Len(funcs[1].body) = 1

\* the lines are well-formed directives and two of them name one decorator
RepeatedChain(lines) ==
    /\ \A j \in 1..Len(lines) : lines[j] \in WellFormedLines
    /\ \E j, k \in 1..Len(lines) :
          j < k /\ DirectiveName(lines[j]) = DirectiveName(lines[k])

\* the lowest line of doc that names a decorator named again below it, and
\* the line below it that names it
UpperOccurrence(doc) ==
    CHOOSE j \in 1..Len(doc) :
        /\ \E k \in (j + 1)..Len(doc) : DirectiveName(doc[j]) = DirectiveName(doc[k])
        /\ \A h \in (j + 1)..Len(doc) :
              \A k \in (h + 1)..Len(doc) : DirectiveName(doc[h]) # DirectiveName(doc[k])
LowerOccurrence(doc) ==
    CHOOSE k \in (UpperOccurrence(doc) + 1)..Len(doc) :
        DirectiveName(doc[k]) = DirectiveName(doc[UpperOccurrence(doc)])

\* C11: a function whose chain of well-formed directives, its own and those
\* of its receiver type, names one decorator twice is rejected: its body is
\* never replaced, the run never gets past it, and the run ends on it with
\* "cannot use the same decorator for repeated decoration" and the positions
\* of the two lines that name the decorator.
C11_RepeatedDecoratorRejected ==
    Propagated =>
        \A i \in 1..Len(funcs) :
            RepeatedChain(TrailingDirectives(funcs[i].doc)) =>
                /\ funcs[i].body = <<>>
                /\ ~Passed(i)
                /\ (cpc = "fatal" /\ cur = i) =>
                      /\ fatal = "cannot use the same decorator for repeated decoration"
                      /\ LET lines == TrailingDirectives(funcs[i].doc)
                             off == Len(funcs[i].doc) - Len(lines)
                         IN errPos = <<off + UpperOccurrence(lines),
                                       off + LowerOccurrence(lines)>>

C11_Witness ==
    /\ cpc = "fatal"
    /\ fatal = "cannot use the same decorator for repeated decoration"
    /\ funcs[cur].hasRecv
    /\ funcs[cur].own = <<DirG>>
    /\ funcs[cur].doc = <<DirG, DirF, DirG>>
    /\ errPos = <<1, 3>>

\* the functions a directive can name, as their source declares them: the
\* type of the first parameter, and the name under which the declaring file
\* imports the decor package
FirstParam(name) ==
    CASE name = <<"f">> -> "*decor.Context"
      [] name = <<"g">> -> "*decor.Context"
      [] name = <<"g", ".", "f">> -> "*d.Context"
      [] name = <<"g", ".", "g">> -> "int"
      [] OTHER -> ""

DeclaringAlias(name) ==
    CASE name = <<"f">> -> "decor"
      [] name = <<"g">> -> "decor"
      [] name = <<"g", ".", "f">> -> "d"
      [] name = <<"g", ".", "g">> -> "d"
      [] OTHER -> ""

\* the name under which the file of funcs[i] imports the decor package (a
\* blank import counts as decor), "" when it does not import it
TargetAlias(i) ==
    IF imports[funcs[i].file].pathMap = "_" THEN "decor"
    ELSE imports[funcs[i].file].pathMap

\* the chain loop stopped on funcs[i]
ChainStopped(i) == cpc = "fatal" /\ cur = i /\ step >= 1

NothingCollected(r) == r.err = "" /\ r.coll = <<>>

\* C14: the files written by a run carry no directive on any function: the
\* scan loop of a second run over a written file collects nothing, so that
\* run replaces no body.
C14_OutputCarriesNoDirective ==
    \A out \in staging :
        \A k \in 1..Len(out.decls) :
            NothingCollected(scanDoc(out.decls[k].doc, Len(out.decls[k].doc),
                                     EmptyMap, <<>>))

\* C15: when the run has ended with a fatal error, no file of the unit has
\* been written to the staging directory and the compiler arguments still
\* name every source file.
C15_NoPartialOutput ==
    cpc = "fatal" =>
        /\ staging = {}
        /\ \A f \in DOMAIN compileArgs : compileArgs[f] = "origin"

\* the type declared by types[k] is declared by an earlier type spec as well
DeclaredAgain(k) == \E j \in 1..(k - 1) : types[j].name = types[k].name

\* the declaration types[k] has directives attached
CarriesDirectives(k) ==
    Lines(TrailingDirectives(types[k].doc))
        \cup Lines(TrailingDirectives(types[k].typeDoc)) # {}

\* types[k] is a declaration with directives of a type that an earlier
\* declaration with directives declares
RepeatedWithDirectives(k) ==
    /\ CarriesDirectives(k)
    /\ \E j \in 1..(k - 1) : types[j].name = types[k].name /\ CarriesDirectives(j)

\* propagation failed at the name of types[k] and no declaration gained a line
DuplicateReportedAt(k) ==
    /\ cpc = "fatal" /\ cur = 0
    /\ fatal = "duplicate type definition: " \o types[k].name
    /\ errPos = <<types[k].namePos>>
    /\ \A i \in 1..Len(funcs) : funcs[i].doc = funcs[i].own

\* C16: once propagation has run on a unit that declares a type name twice,
\* it has failed with "duplicate type definition" at the name of the repeated
\* declaration and no method has gained a directive.
C16_DeclaredTwiceRejected ==
    cpc # "rebuild" =>
        \A k \in 1..Len(types) : DeclaredAgain(k) => DuplicateReportedAt(k)

\* the same statement for two declarations that both carry directives
RepeatedDirectivesRejected ==
    cpc # "rebuild" =>
        \A k \in 1..Len(types) : RepeatedWithDirectives(k) => DuplicateReportedAt(k)

\* the scan loop has collected the chain of funcs[cur]
Collected == cpc = "chain"

\* C20: the chain the scan loop collects for a function is the maximal run of
\* directive lines at the end of its doc comment, read from the last line
\* upward, and only directives of that run are ever applied to the function:
\* a function whose doc comment does not end with a directive is never woven.
C20_TrailingRunCollected ==
    /\ Collected =>
          LET run == TrailingDirectives(funcs[cur].doc)
          IN  /\ Len(collDecors) = Len(run)
              /\ \A j \in 1..Len(run) :
                    collDecors[j].name = DirectiveName(run[Len(run) + 1 - j])
    /\ \A i \in 1..Len(funcs) :
          /\ Len(funcs[i].body) <= Len(TrailingDirectives(funcs[i].doc))
          /\ \A j \in 1..Len(funcs[i].body) :
                \E line \in Lines(TrailingDirectives(funcs[i].doc)) :
                    funcs[i].body[j].name = DirectiveName(line)

C20_Witness ==
    /\ cpc = "done"
    /\ Len(funcs) = 2
    /\ funcs[1].doc = <<DirF, NearDirective>>
    /\ funcs[1].body = <<>>
    /\ funcs[2].doc = <<DirG>>
    /\ Len(funcs[2].body) = 1

\* C27: the code generated for a target names the decor package only by a
\* name that the imports of the written file bind to it: a blank import has
\* become a named import, and under an aliased import the generated context
\* construction uses the alias.
C27_GeneratedCodeUsesBoundName ==
    \A out \in staging :
        /\ out.imports.pathMap \notin {"", "_"}
        /\ \A k \in 1..Len(out.decls) : \A j \in 1..Len(out.decls[k].body) :
              out.decls[k].body[j].pkg = out.imports.pathMap

\* the part of the statement that holds: a blank import of the decor package
\* is written as a plain import, which binds the name the template uses
BlankImportPromoted ==
    \A out \in staging :
        /\ out.imports.pathMap \notin {"", "_"}
        /\ imports[out.file].pathMap \in {"_", "decor"} =>
              \A k \in 1..Len(out.decls) : \A j \in 1..Len(out.decls[k].body) :
                  out.decls[k].body[j].pkg = out.imports.pathMap

(***************************************************************************)
(* SpecImport: newImporter (transformer.go) on the import specs of a file. *)
(* An import spec is written from a structured description: the name as    *)
(* written (none, _, ., an alias) and the segments of the path.            *)
(***************************************************************************)
MaxImports == 2

\* strconv.Unquote on an interpreted string literal without escapes
Unquote(v) == SubSeq(v, 2, Len(v) - 1)

\* the index of the last one of the characters cs in s, or 0
LastIndexOf(s, cs) ==
    IF \A i \in 1..Len(s) : s[i] \notin cs THEN 0
    ELSE CHOOSE i \in 1..Len(s) :
            s[i] \in cs /\ \A j \in (i + 1)..Len(s) : s[j] \notin cs

\* filepath.Base on a path that does not end in a slash
Base(path) ==
    IF path = <<>> THEN <<".">>
    ELSE SubSeq(path, LastIndexOf(path, {"/"}) + 1, Len(path))

\* filepath.Ext: the suffix of the last element that begins at its last dot
Ext(path) ==
    IF LastIndexOf(Base(path), {"."}) = 0 THEN <<>>
    ELSE SubSeq(Base(path), LastIndexOf(Base(path), {"."}), Len(Base(path)))

\* strings.TrimRight(s, cutset): the trailing characters of cutset are removed
TrimRight(s, cutset) ==
    SubSeq(s, 1, Max({0} \cup {i \in 1..Len(s) : s[i] \notin Chars(cutset)}))

\* strconv.Atoi on an optional sign and decimal digits
Atoi(t) ==
    LET signed == Len(t) > 0 /\ t[1] \in {"+", "-"}
        ds == IF signed THEN Tail(t) ELSE t
    IN  IF ds = <<>> \/ \E i \in 1..Len(ds) : ds[i] \notin Digits
        THEN [v |-> 0, ok |-> FALSE]
        ELSE [v |-> IF signed /\ t[1] = "-" THEN 0 - DecimalValue(ds)
                    ELSE DecimalValue(ds),
              ok |-> TRUE]

RECURSIVE Split(_, _)
\* strings.Split(s, sep) for a one-character separator
Split(s, sep) ==
    IF Cut(s, sep).found
    THEN <<Cut(s, sep).before>> \o Split(Cut(s, sep).after, sep)
    ELSE <<s>>

\* newImporter: extName of the import path pkg
extName(pkg) ==
    LET trimmed == TrimRight(Base(pkg), Ext(pkg))
        arr == Split(pkg, "/")
    IN  IF /\ HasPrefix(trimmed, <<"v">>)
           /\ Atoi(TrimLeft(trimmed, {"v"})).ok
           /\ Atoi(TrimLeft(trimmed, {"v"})).v > 1
           /\ Len(arr) > 1
        THEN arr[Len(arr) - 1]
        ELSE trimmed

\* newImporter: the name the import spec ip is filed under
importName(ip) ==
    IF ~ip.named THEN extName(Unquote(ip.pathValue))
    ELSE IF ip.name \in {<<>>, <<"_">>, <<".">>} THEN extName(Unquote(ip.pathValue))
    ELSE ip.name

\* newImporter: pathMap[pkg] for the import spec ip
importBinding(ip) == IF ip.named THEN ip.name ELSE importName(ip)

NoImporter == [nameMap |-> EmptyMap, pathMap |-> EmptyMap, pathObjMap |-> EmptyMap]

RECURSIVE importerFrom(_, _, _)
\* newImporter, the loop over f.Imports from index k
importerFrom(list, k, r) ==
    IF k > Len(list) THEN r
    ELSE importerFrom(list, k + 1,
            [nameMap |-> putOverwriting(r.nameMap, importName(list[k]),
                                        Unquote(list[k].pathValue)).items,
             pathMap |-> putOverwriting(r.pathMap, Unquote(list[k].pathValue),
                                        importBinding(list[k])).items,
             pathObjMap |-> putOverwriting(r.pathObjMap, Unquote(list[k].pathValue),
                                           k).items])

\* newImporter
newImporter(list) == importerFrom(list, 1, NoImporter)

\* importer.importedName
importedName(i, name) ==
    IF name \in DOMAIN i.nameMap THEN [pat |-> i.nameMap[name], ok |-> TRUE]
    ELSE [pat |-> <<>>, ok |-> FALSE]

\* importer.importedPath
importedPath(i, pkg) ==
    IF pkg \in DOMAIN i.pathMap THEN [name |-> i.pathMap[pkg], ok |-> TRUE]
    ELSE [name |-> <<>>, ok |-> FALSE]

\* the import paths: m/p, m/p/v2, m/p/v1, m/vv2, m/log.go, m/yaml.v3
ImportPaths ==
    {<< <<"m">>, <<"p">> >>,
     << <<"m">>, <<"p">>, <<"v", "2">> >>,
     << <<"m">>, <<"p">>, <<"v", "1">> >>,
     << <<"m">>, <<"v", "v", "2">> >>,
     << <<"m">>, <<"l", "o", "g", ".", "g", "o">> >>,
     << <<"m">>, <<"y", "a", "m", "l", ".", "v", "3">> >>}

\* an import spec: plain, blank, wildcard or with the alias y
ImportSpec(form, segs) ==
    [named |-> form # "plain",
     name |-> CASE form = "plain" -> <<>>
                [] form = "blank" -> <<"_">>
                [] form = "wildcard" -> <<".">>
                [] form = "alias" -> <<"y">>,
     pathValue |-> <<"\"">> \o Join(segs, <<"/">>) \o <<"\"">>,
     form |-> form, segs |-> segs]

ImportSpecs ==
    {ImportSpec(form, segs) :
        form \in {"plain", "blank", "wildcard", "alias"}, segs \in ImportPaths}

InitImport ==
    /\ astImports \in UNION {[1..n -> ImportSpecs] : n \in 0..MaxImports}
    /\ built = <<>>
    /\ ipc = "ready"
    /\ GenIdle /\ LoadIdle /\ LettersIdle
    /\ ParseIdle /\ LintIdle /\ CompileIdle /\ CallIdle

\* a call of newImporter on the file
NewImporter ==
    /\ ipc = "ready"
    /\ built' = newImporter(astImports)
    /\ ipc' = "done"
    /\ UNCHANGED <<astImports, engineVars, genVars, loadVars, lettersVars>>

NextImport == NewImporter

SpecImport == InitImport /\ [][NextImport]_vars

\* a segment of the form vN with N >= 2
MajorVersion(seg) ==
    /\ Len(seg) >= 2
    /\ seg[1] = "v"
    /\ \A i \in 2..Len(seg) : seg[i] \in Digits
    /\ DecimalValue(Tail(seg)) >= 2

\* the local name the statement gives an import written as ip
StatedName(ip) ==
    IF ip.form = "alias" THEN ip.name
    ELSE IF MajorVersion(ip.segs[Len(ip.segs)]) /\ Len(ip.segs) > 1
    THEN ip.segs[Len(ip.segs) - 1]
    ELSE ip.segs[Len(ip.segs)]

\* the binding as written
StatedBinding(ip) == IF ip.form = "plain" THEN StatedName(ip) ELSE ip.name

PathOf(ip) == Join(ip.segs, <<"/">>)

\* no two imports of the file have the same path or the same stated name
DistinctImports ==
    \A i, j \in 1..Len(astImports) :
        (\/ PathOf(astImports[i]) = PathOf(astImports[j])
         \/ StatedName(astImports[i]) = StatedName(astImports[j])) => i = j

\* C25: newImporter binds an aliased import to its alias and a plain, blank
\* or wildcard import to the last segment of its path, or to the segment
\* before it when the last segment is vN with N >= 2 (v1 is kept);
\* importedName of that name returns the import's path and importedPath of
\* the path returns the binding as written.
C25_ImportNames ==
    (ipc = "done" /\ DistinctImports) =>
        \A k \in 1..Len(astImports) :
            /\ importedName(built, StatedName(astImports[k])) =
                  [pat |-> PathOf(astImports[k]), ok |-> TRUE]
            /\ importedPath(built, PathOf(astImports[k])) =
                  [name |-> StatedBinding(astImports[k]), ok |-> TRUE]

\* the same statement for paths whose last segment is letters only, or v
\* followed by digits
ImportNamesPlainSegments ==
    (\A k \in 1..Len(astImports) :
        LET seg == astImports[k].segs[Len(astImports[k].segs)]
        IN  /\ "." \notin Chars(seg)
            /\ (seg[1] = "v" => \A i \in 2..Len(seg) : seg[i] \in Digits)) =>
        C25_ImportNames

(***************************************************************************)
(* SpecLetters: isLetters (checker.go) applied to byte strings.  A string  *)
(* is the sequence of its bytes, decoded rune by rune as                   *)
(* utf8.DecodeRuneInString decodes it.                                     *)
(***************************************************************************)
MaxBytes == 4

\* utf8.RuneError, U+FFFD
RuneError == 65533

Continuation(b) == b >= 128 /\ b <= 191

\* the bytes after i that the lead byte s[i] asks for are there
HasBytes(s, i, n) == i + n - 1 <= Len(s)

\* utf8.DecodeRuneInString(s[i:]): the rune at byte i (1-based) and its size;
\* a byte that begins no valid encoding decodes to RuneError with size 1
DecodeRuneInString(s, i) ==
    IF s[i] < 128 THEN [r |-> s[i], size |-> 1]
    ELSE IF /\ s[i] >= 194 /\ s[i] <= 223 /\ HasBytes(s, i, 2)
            /\ Continuation(s[i + 1])
    THEN [r |-> (s[i] % 32) * 64 + (s[i + 1] % 64), size |-> 2]
    ELSE IF /\ s[i] >= 224 /\ s[i] <= 239 /\ HasBytes(s, i, 3)
            /\ Continuation(s[i + 1]) /\ Continuation(s[i + 2])
            /\ (s[i] = 224 => s[i + 1] >= 160)
            /\ (s[i] = 237 => s[i + 1] <= 159)
    THEN [r |-> (s[i] % 16) * 4096 + (s[i + 1] % 64) * 64 + (s[i + 2] % 64),
          size |-> 3]
    ELSE IF /\ s[i] >= 240 /\ s[i] <= 244 /\ HasBytes(s, i, 4)
            /\ Continuation(s[i + 1]) /\ Continuation(s[i + 2])
            /\ Continuation(s[i + 3])
            /\ (s[i] = 240 => s[i + 1] >= 144)
            /\ (s[i] = 244 => s[i + 1] <= 143)
    THEN [r |-> (s[i] % 8) * 262144 + (s[i + 1] % 64) * 4096
                 + (s[i + 2] % 64) * 64 + (s[i + 3] % 64),
          size |-> 4]
    ELSE [r |-> RuneError, size |-> 1]

\* unicode.IsLetter on the runes the strings of Texts decode to: the ASCII
\* letters and the CJK unified ideographs
IsLetter(r) ==
    \/ r >= 65 /\ r <= 90
    \/ r >= 97 /\ r <= 122
    \/ r >= 19968 /\ r <= 40908

RECURSIVE isLettersFrom(_, _, _)
\* isLetters, the loop from byte offset (1-based) with the result b so far
isLettersFrom(s, offset, b) ==
    IF offset > Len(s) THEN b
    ELSE IF DecodeRuneInString(s, offset).r = RuneError THEN b
    ELSE IF ~IsLetter(DecodeRuneInString(s, offset).r) THEN FALSE
    ELSE isLettersFrom(s, offset + DecodeRuneInString(s, offset).size, TRUE)

\* isLetters
isLetters(s) == isLettersFrom(s, 1, FALSE)

\* the bytes strings are made of: a, space, 1, the bytes E8 BF 99 of U+8FD9,
\* and FF, which occurs in no encoding
TextBytes == {97, 32, 49, 232, 191, 153, 255}

Texts == UNION {[1..n -> TextBytes] : n \in 0..MaxBytes}

InitLetters ==
    /\ text \in Texts
    /\ letters = FALSE
    /\ tpc = "ready"
    /\ GenIdle /\ LoadIdle /\ ImportIdle
    /\ ParseIdle /\ LintIdle /\ CompileIdle /\ CallIdle

\* a call of isLetters
IsLetters ==
    /\ tpc = "ready"
    /\ letters' = isLetters(text)
    /\ tpc' = "done"
    /\ UNCHANGED <<text, engineVars, genVars, loadVars, importVars>>

NextLetters == IsLetters

SpecLetters == InitLetters /\ [][NextLetters]_vars

\* the encodings of letters over TextBytes: a, and the ideographs E8 xx yy
LetterEncodings ==
    {<<97>>} \cup {<<232, x, y>> : x \in {191, 153}, y \in {191, 153}}

RECURSIVE Composed(_, _)
\* t is a concatenation of encodings taken from E
Composed(t, E) ==
    \/ t = <<>>
    \/ \E e \in E :
          /\ Len(e) <= Len(t)
          /\ SubSeq(t, 1, Len(e)) = e
          /\ Composed(SubSeq(t, Len(e) + 1, Len(t)), E)

OnlyLetters(t) == Composed(t, LetterEncodings)

\* C30: isLetters(s) is true exactly when s is not empty and every character
\* of s is a letter; white space, a digit or a byte that cannot be decoded
\* anywhere in s makes it false.
C30_TrueIffAllLetters ==
    tpc = "done" => (letters <=> (text # <<>> /\ OnlyLetters(text)))

\* the same statement for strings that are valid UTF-8
TrueIffAllLettersValid ==
    Composed(text, LetterEncodings \cup {<<32>>, <<49>>}) => C30_TrueIffAllLetters

(***************************************************************************)
(* SpecLoad: pkgLoader.loadPkg (checker.go) called for a sequence of       *)
(* package paths.  go list and parser.ParseDir are the environment: each   *)
(* call of them succeeds or fails.                                         *)
(***************************************************************************)

\* the number of loadPkg calls of one run
MaxLoads == 4

\* the package paths findTarget asks for: "" and "main" are the package being
\* compiled, the others are imported packages
LoadPaths == {"", "main", "m/g", "m/x"}

Outcomes == {"ok", "err"}

msgGoList == "go list failed"
msgParseDir == "parse error"

\* no *pkgSet
NilSet == [fset |-> 0, dir |-> ""]

\* getPackageInfo: go list runs in the project directory, with the path as
\* argument unless it is "" or "main"
getPackageInfo(pkgPath, goList) ==
    IF goList = "err" THEN [dir |-> "", err |-> msgGoList]
    ELSE IF pkgPath # "" /\ pkgPath # "main" THEN [dir |-> pkgPath, err |-> ""]
    ELSE [dir |-> ".", err |-> ""]

\* d.pkg[pkgPath] = set
cachePut(pkg, pkgPath, set) ==
    [p \in DOMAIN pkg \cup {pkgPath} |-> IF p = pkgPath THEN set ELSE pkg[p]]

\* pkgLoader.loadPkg without the cache read: every call lists and parses
loadPkgUncached(pkg, pkgPath, fresh, goList, parseDir) ==
    LET pi == getPackageInfo(pkgPath, goList)
    IN  IF pi.err # ""
        THEN [pkg |-> pkg, set |-> NilSet, err |-> pi.err, listed |-> TRUE, parsed |-> FALSE]
        ELSE IF parseDir = "err"
        THEN [pkg |-> pkg, set |-> NilSet, err |-> msgParseDir, listed |-> TRUE, parsed |-> TRUE]
        ELSE [pkg |-> cachePut(pkg, pkgPath, [fset |-> fresh, dir |-> pi.dir]),
              set |-> [fset |-> fresh, dir |-> pi.dir],
              err |-> "", listed |-> TRUE, parsed |-> TRUE]

\* pkgLoader.loadPkg on the cache pkg; fresh stands for the address of the
\* pkgSet the call allocates, goList and parseDir for what the environment
\* answers.  The result holds the cache after the call, the returned set and
\* error, and whether go list and ParseDir ran.
loadPkg(pkg, pkgPath, fresh, goList, parseDir) ==
    IF pkgPath \in DOMAIN pkg
    THEN [pkg |-> pkg, set |-> pkg[pkgPath], err |-> "", listed |-> FALSE, parsed |-> FALSE]
    ELSE LET pi == getPackageInfo(pkgPath, goList)
         IN  IF pi.err # ""
             THEN [pkg |-> pkg, set |-> NilSet, err |-> pi.err,
                   listed |-> TRUE, parsed |-> FALSE]
             ELSE IF parseDir = "err"
             THEN [pkg |-> pkg, set |-> NilSet, err |-> msgParseDir,
                   listed |-> TRUE, parsed |-> TRUE]
             ELSE [pkg |-> cachePut(pkg, pkgPath, [fset |-> fresh, dir |-> pi.dir]),
                   set |-> [fset |-> fresh, dir |-> pi.dir],
                   err |-> "", listed |-> TRUE, parsed |-> TRUE]

\* newPkgLoader
InitLoad ==
    /\ loaderPkg = <<>>
    /\ loads = <<>>
    /\ GenIdle /\ ImportIdle /\ LettersIdle
    /\ ParseIdle /\ LintIdle /\ CompileIdle /\ CallIdle

\* one call of loadPkg
LoadPkg ==
    /\ Len(loads) < MaxLoads
    /\ \E pkgPath \in LoadPaths, goList \in Outcomes, parseDir \in Outcomes :
         LET r == loadPkg(loaderPkg, pkgPath, Len(loads) + 1, goList, parseDir)
         IN  /\ loaderPkg' = r.pkg
             /\ loads' = Append(loads, [path |-> pkgPath, before |-> loaderPkg,
                                        after |-> r.pkg, set |-> r.set, err |-> r.err,
                                        listed |-> r.listed, parsed |-> r.parsed])
    /\ UNCHANGED <<engineVars, genVars, importVars, lettersVars>>

NextLoad == LoadPkg

SpecLoad == InitLoad /\ [][NextLoad]_vars

\* the calls that loaded the path successfully
LoadedAt(pkgPath) ==
    {i \in 1..Len(loads) : loads[i].path = pkgPath /\ loads[i].parsed /\ loads[i].err = ""}

\* C24: a package path is loaded successfully at most once in a run: every
\* resolution of the path after that one runs neither go list nor ParseDir
\* and returns the tree that load cached; no call replaces or removes a cache
\* entry; and a call that fails leaves the cache as it was.
C24_LoadedOnce ==
    /\ \A pkgPath \in LoadPaths : Cardinality(LoadedAt(pkgPath)) <= 1
    /\ \A i \in 1..Len(loads) : \A j \in (i + 1)..Len(loads) :
         (i \in LoadedAt(loads[i].path) /\ loads[j].path = loads[i].path)
            => /\ ~loads[j].listed /\ ~loads[j].parsed
               /\ loads[j].err = ""
               /\ loads[j].set = loads[i].set
    /\ \A i \in 1..Len(loads) :
         /\ \A p \in DOMAIN loads[i].before :
              p \in DOMAIN loads[i].after /\ loads[i].after[p] = loads[i].before[p]
         /\ loads[i].err # "" => loads[i].after = loads[i].before
         /\ i > 1 => loads[i].before = loads[i - 1].after
    /\ loaderPkg = IF loads = <<>> THEN <<>> ELSE loads[Len(loads)].after

\* a path was loaded, a load of another path failed, and the first path was
\* resolved again
C24_Witness ==
    /\ Len(loads) = 3
    /\ loads[1].path = "m/g" /\ loads[1].parsed /\ loads[1].err = ""
    /\ loads[2].path = "m/x" /\ loads[2].err = msgParseDir
    /\ loads[3].path = "m/g" /\ ~loads[3].parsed
    /\ loads[3].set = loads[1].set
    /\ DOMAIN loaderPkg = {"m/g"}

(***************************************************************************)
(* SpecGen: the chain loop of compile on one target declaration, one       *)
(* directive at a time: builderReplaceArgs, replace and getStmtList,       *)
(* assignWrappedCodePos, the splice of the target's body, assignCorrectPos.*)
(* Positions are modelled by where they point: "gen" is a position in the  *)
(* generated text getStmtList parsed, "wrapped" one in wrapped_code.go,    *)
(* "doc" the directive comment, "orig" the target's file.                  *)
(***************************************************************************)

\* fields of a parameter list and of a result list
MaxFields == 1

\* directives on one target
MaxChain == 2

TypeInt == <<"i", "n", "t">>

\* the type expressions of the targets: int, []int, ...int, *int
TypeKinds == {"Ident", "ArrayType", "Ellipsis", "StarExpr"}

TypeExpr(kind) == [kind |-> kind, elt |-> TypeInt]

\* printer.Fprint on a type expression
FprintExpr(e) ==
    CASE e.kind = "Ident" -> e.elt
      [] e.kind = "ArrayType" -> <<"[", "]">> \o e.elt
      [] e.kind = "Ellipsis" -> <<".", ".", ".">> \o e.elt
      [] e.kind = "StarExpr" -> <<"*">> \o e.elt

typeString(expr) ==
    IF HasPrefix(FprintExpr(expr), <<".", ".", ".">>)
    THEN <<"[", "]">> \o SubSeq(FprintExpr(expr), 4, Len(FprintExpr(expr)))
    ELSE FprintExpr(expr)

elString(expr) ==
    IF HasPrefix(typeString(expr), <<"[", "]">>) THEN "..." ELSE ""

\* randStr(6)
randSuffixes == {"aaaaaa", "qwerty"}

newGenIdentId(suf) == [id |-> 0, ident |-> "_decorGenIdent" \o suf]

\* genIdentId.next: the generator after the call
next(g) == [g EXCEPT !.id = @ + 1]

\* genIdentId.nextStr: the string the call returns
nextStr(g) == g.ident \o ToString(next(g).id)

\* an ast.Field; Names is <<>> for a field without names
Field(names, typ) == [Names |-> names, Type |-> typ]

newReplaceArgs(g, targetName, decorName) ==
    [HaveDecorParam |-> FALSE,
     HaveReturn |-> FALSE,
     TKind |-> "KFunc",
     TargetName |-> targetName,
     ReceiverVarName |-> "nil",
     DecorVarName |-> nextStr(g),
     DecorCallName |-> decorName,
     FuncMain |-> <<>>,
     DecorCallParams |-> <<>>,
     InArgNames |-> <<>>,
     OutArgNames |-> <<>>,
     InArgTypes |-> <<>>,
     OutArgTypes |-> <<>>,
     DecorListOut |-> <<>>,
     DecorCallIn |-> <<>>,
     DecorCallOut |-> <<>>]

\* builderReplaceArgs, first loop over the results: a field without names
\* gets one generated name
RECURSIVE nameResults(_, _, _)
nameResults(list, k, g) ==
    IF k > Len(list) THEN [List |-> list, gi |-> g]
    ELSE IF list[k].Names # <<>> THEN nameResults(list, k + 1, g)
    ELSE nameResults([list EXCEPT ![k].Names = <<nextStr(g)>>], k + 1, next(g))

\* builderReplaceArgs, loops over the names of the results and of the
\* parameters: a name "_" is replaced by a generated one
RECURSIVE renameDiscarded(_, _, _, _)
renameDiscarded(list, k, j, g) ==
    IF k > Len(list) THEN [List |-> list, gi |-> g]
    ELSE IF j > Len(list[k].Names) THEN renameDiscarded(list, k + 1, 1, g)
    ELSE IF list[k].Names[j] = "_"
    THEN renameDiscarded([list EXCEPT ![k].Names[j] = nextStr(g)], k, j + 1, next(g))
    ELSE renameDiscarded(list, k, j + 1, g)

\* the names of a field list with the type of each, in order; a field
\* without names gives none
RECURSIVE namesOf(_, _)
namesOf(list, k) ==
    IF k > Len(list) THEN <<>>
    ELSE [j \in 1..Len(list[k].Names) |->
            [Name |-> list[k].Names[j], Type |-> list[k].Type]]
         \o namesOf(list, k + 1)

\* the entries builderReplaceArgs appends for the names of a list
listOut(ra, outs) ==
    [ra EXCEPT
        !.OutArgNames = [i \in 1..Len(outs) |-> outs[i].Name],
        !.OutArgTypes = [i \in 1..Len(outs) |-> typeString(outs[i].Type)],
        !.DecorListOut = [i \in 1..Len(outs) |->
                            [DecorVarName |-> ra.DecorVarName, count |-> i - 1]],
        !.DecorCallOut = [i \in 1..Len(outs) |->
                            [typ |-> typeString(outs[i].Type),
                             DecorVarName |-> ra.DecorVarName, count |-> i - 1]],
        !.HaveReturn = Len(outs) # 0]

listIn(ra, ins) ==
    [ra EXCEPT
        !.InArgNames = [i \in 1..Len(ins) |-> ins[i].Name],
        !.InArgTypes = [i \in 1..Len(ins) |-> typeString(ins[i].Type)],
        !.DecorCallIn = [i \in 1..Len(ins) |->
                            [typ |-> typeString(ins[i].Type),
                             DecorVarName |-> ra.DecorVarName, count |-> i - 1,
                             el |-> elString(ins[i].Type)]]]

\* builderReplaceArgs up to the closure: the parameters of the decorator,
\* the receiver, and the closure printed from the declaration as it is
headArgs(f, decorName, decorParams, g) ==
    [newReplaceArgs(g, f.Name, decorName) EXCEPT
        !.HaveDecorParam = decorParams # <<>>,
        !.DecorCallParams = decorParams,
        !.TKind = IF f.Recv # <<>> THEN "KMethod" ELSE @,
        !.ReceiverVarName = IF f.Recv # <<>> THEN f.Recv[1].Names[1] ELSE @,
        !.FuncMain = [Params |-> f.Params, Results |-> f.Results, Body |-> f.Body]]

\* builderReplaceArgs: panic tells that f.Recv.List[0].Names[0] was out of
\* range; otherwise ra is the descriptor, f the declaration with the names
\* the call gave it, gi the generator after the call
builderReplaceArgs(f, decorName, decorParams, g) ==
    IF f.Recv # <<>> /\ f.Recv[1].Names = <<>>
    THEN [panic |-> TRUE, ra |-> <<>>, f |-> f, gi |-> next(g)]
    ELSE LET r1 == nameResults(f.Results, 1, next(g))
             r2 == renameDiscarded(r1.List, 1, 1, r1.gi)
             p == renameDiscarded(f.Params, 1, 1, r2.gi)
         IN  [panic |-> FALSE,
              ra |-> listIn(listOut(headArgs(f, decorName, decorParams, g),
                                    namesOf(r2.List, 1)),
                            namesOf(p.List, 1)),
              f |-> [f EXCEPT !.Results = r2.List, !.Params = p.List],
              gi |-> p.gi]

\* kinds of ast nodes that have no position field of their own
NoPosKinds == {"SelectorExpr", "FuncLit", "Field", "ExprStmt"}

\* a node as the parser makes it from the generated text; n is the number of
\* kids that come first in the node (Lhs of an AssignStmt; Type of a
\* CompositeLit, Fun of a CallExpr)
AstNode(kind, n, kids) ==
    [kind |-> kind, n |-> n, kids |-> kids,
     pos |-> IF kind \in NoPosKinds THEN "-" ELSE "gen"]

IdentNode == AstNode("Ident", 0, <<>>)
BasicLitNode == AstNode("BasicLit", 0, <<>>)

\* x.Sel: kids are <<Sel, X>>
SelectorNode == AstNode("SelectorExpr", 0, <<IdentNode, IdentNode>>)

\* the statements of the targets' bodies
OrigBody == <<[AstNode("ReturnStmt", 0, <<>>) EXCEPT !.pos = "orig"]>>

\* the node of a type written as typeString gives it
ParseType(s) ==
    IF HasPrefix(s, <<"[", "]">>) THEN AstNode("ArrayType", 0, <<IdentNode>>)
    ELSE IF HasPrefix(s, <<"*">>) THEN AstNode("StarExpr", 0, <<IdentNode>>)
    ELSE IdentNode

\* the node of a type expression of the printed closure
TypeNode(e) ==
    IF e.kind = "Ident" THEN IdentNode ELSE AstNode(e.kind, 0, <<IdentNode>>)

\* a field list of the printed closure: a Field has kids <<Type>> \o Names
FieldListNode(list) ==
    AstNode("FieldList", 0,
         [k \in 1..Len(list) |->
            AstNode("Field", 1, <<TypeNode(list[k].Type)>>
                             \o [j \in 1..Len(list[k].Names) |-> IdentNode])])

\* func(params) results: kids are <<Params>> or <<Params, Results>>
FuncTypeNode(params, results) ==
    AstNode("FuncType", 0,
         IF results = <<>> THEN <<FieldListNode(params)>>
         ELSE <<FieldListNode(params), FieldListNode(results)>>)

\* ${.FuncMain}: the closure, kids <<Type, Body>>
ClosureNode(fm) ==
    AstNode("FuncLit", 0, <<FuncTypeNode(fm.Params, fm.Results),
                         AstNode("BlockStmt", 0, fm.Body)>>)

\* ctx.TargetIn[i], ctx.TargetOut[i]: kids <<X, Index>>
IndexNode == AstNode("IndexExpr", 0, <<SelectorNode, BasicLitNode>>)

\* func() T {o,_ := ctx.TargetIn[i].(T); return o}()
AccessorNode(typ) ==
    AstNode("CallExpr", 1,
      <<AstNode("FuncLit", 0,
          <<AstNode("FuncType", 0,
               <<AstNode("FieldList", 0, <<>>),
                 AstNode("FieldList", 0, <<AstNode("Field", 1, <<ParseType(typ)>>)>>)>>),
            AstNode("BlockStmt", 0,
               <<AstNode("AssignStmt", 2,
                    <<IdentNode, IdentNode,
                      AstNode("TypeAssertExpr", 0, <<ParseType(typ), IndexNode>>)>>),
                 AstNode("ReturnStmt", 0, <<IdentNode>>)>>)>>)>>)

\* []any{names}
AnyListNode(names) ==
    AstNode("CompositeLit", 1,
         <<AstNode("ArrayType", 0, <<IdentNode>>)>> \o [i \in 1..Len(names) |-> IdentNode])

KeyValueNode(v) == AstNode("KeyValueExpr", 0, <<IdentNode, v>>)

\* a parameter of the decorator call as the parser reads it
ParamNode(p) ==
    IF Head(p) = "-" THEN AstNode("UnaryExpr", 0, <<BasicLitNode>>)
    ELSE IF Head(p) \in Digits \cup {"\""} THEN BasicLitNode
    ELSE IdentNode

\* ${.FuncMain} (${stringer .DecorCallIn}): kids <<Fun>> \o Args
MainCallNode(ra) ==
    AstNode("CallExpr", 1,
         <<ClosureNode(ra.FuncMain)>>
         \o [i \in 1..Len(ra.DecorCallIn) |-> AccessorNode(ra.DecorCallIn[i].typ)])

\* getStmtList(replace(ra)): the statements of replaceTpl filled from ra
getStmtList(ra) ==
    <<AstNode("AssignStmt", 1,
        <<IdentNode,
          AstNode("UnaryExpr", 0,
            <<AstNode("CompositeLit", 1,
                <<SelectorNode,
                  KeyValueNode(SelectorNode),
                  KeyValueNode(BasicLitNode),
                  KeyValueNode(IdentNode),
                  KeyValueNode(AnyListNode(ra.InArgNames)),
                  KeyValueNode(AnyListNode(ra.OutArgNames))>>)>>)>>),
      AstNode("AssignStmt", 1,
        <<SelectorNode,
          AstNode("FuncLit", 0,
            <<AstNode("FuncType", 0, <<AstNode("FieldList", 0, <<>>)>>),
              AstNode("BlockStmt", 0,
                <<IF ra.HaveReturn
                  THEN AstNode("AssignStmt", Len(ra.DecorListOut),
                            [i \in 1..Len(ra.DecorListOut) |-> IndexNode]
                            \o <<MainCallNode(ra)>>)
                  ELSE AstNode("ExprStmt", 0, <<MainCallNode(ra)>>)>>)>>)>>),
      AstNode("ExprStmt", 0,
        <<AstNode("CallExpr", 1,
            <<IF decorX(ra.DecorCallName) = <<>> THEN IdentNode ELSE SelectorNode,
              IdentNode>>
            \o [i \in 1..Len(ra.DecorCallParams) |-> ParamNode(ra.DecorCallParams[i])])>>)>>
    \o IF ra.HaveReturn
       THEN <<AstNode("ReturnStmt", 0,
                   [i \in 1..Len(ra.DecorCallOut) |-> AccessorNode(ra.DecorCallOut[i].typ)])>>
       ELSE <<>>

\* assignStmtPos(f, t, depth) with the node t at position t
RECURSIVE assignStmtPos(_, _, _)
assignStmtPos(f, t, depth) ==
    LET all == 1..Len(f.kids)
        into(S) == [i \in all |->
                      IF i \in S THEN assignStmtPos(f.kids[i], t, depth) ELSE f.kids[i]]
    IN  CASE f.kind \in {"Ident", "BasicLit"} -> [f EXCEPT !.pos = t]
          [] f.kind \in {"UnaryExpr", "AssignStmt", "CompositeLit", "KeyValueExpr",
                         "ArrayType", "BlockStmt", "FieldList"} ->
                [f EXCEPT !.pos = t, !.kids = into(IF depth THEN all ELSE {})]
          [] f.kind \in {"IndexExpr", "FuncType", "TypeAssertExpr"} ->
                [f EXCEPT !.pos = t, !.kids = into(all)]
          [] f.kind \in {"SelectorExpr", "Field"} -> [f EXCEPT !.kids = into(all)]
          [] f.kind = "FuncLit" -> [f EXCEPT !.kids = into(IF depth THEN all ELSE {1})]
          [] f.kind = "CallExpr" ->
                [f EXCEPT !.pos = t, !.kids = into(IF depth THEN all ELSE all \ {1})]
          [] OTHER -> f

\* the index, among the kids of the statement in ctx.Func, of the call of
\* the closure
MainCallAt(stmt) == IF stmt.kind = "AssignStmt" THEN Len(stmt.kids) ELSE 1

\* assignWrappedCodePos, first block: ctx := &decor.Context{...}
wrappedPosContext(s) ==
    [s EXCEPT
        !.pos = "wrapped",
        !.kids = <<assignStmtPos(s.kids[1], "wrapped", TRUE),
                   [assignStmtPos(s.kids[2], "wrapped", FALSE) EXCEPT
                       !.kids[1] =
                          [@ EXCEPT
                              !.pos = "wrapped",
                              !.kids = [i \in 1..Len(@) |->
                                          assignStmtPos(@[i], "wrapped", TRUE)]]]>>]

\* assignWrappedCodePos, second block, the arguments of the call of the
\* closure
wrappedPosArgs(c) ==
    [c EXCEPT !.kids = [i \in 1..Len(@) |->
                          IF i = 1 THEN @[i] ELSE assignStmtPos(@[i], "wrapped", TRUE)]]

\* assignWrappedCodePos, second block: ctx.Func = func() {...}
wrappedPosFunc(s) ==
    LET lit == assignStmtPos(s.kids[2], "wrapped", TRUE)
        inner == lit.kids[2].kids[1]
        first == IF inner.kind = "AssignStmt"
                 THEN [inner EXCEPT !.kids[1] = assignStmtPos(@, "wrapped", TRUE)]
                 ELSE inner
    IN  [s EXCEPT
            !.kids = <<assignStmtPos(s.kids[1], "wrapped", TRUE),
                       [lit EXCEPT
                           !.kids[2].kids[1] =
                              [first EXCEPT
                                  !.kids[MainCallAt(first)] = wrappedPosArgs(@)]]>>]

\* assignWrappedCodePos, third block: return ...
wrappedPosReturn(s) ==
    [s EXCEPT !.pos = "wrapped",
              !.kids = [i \in 1..Len(@) |-> assignStmtPos(@[i], "wrapped", TRUE)]]

assignWrappedCodePos(from) ==
    [i \in 1..Len(from) |->
        CASE i = 1 -> wrappedPosContext(from[i])
          [] i = 2 -> wrappedPosFunc(from[i])
          [] i = 4 -> wrappedPosReturn(from[i])
          [] OTHER -> from[i]]

\* assignCorrectPos, one argument of the call
correctPosArg(arg) ==
    CASE arg.kind \in {"Ident", "BasicLit"} -> [arg EXCEPT !.pos = "doc"]
      [] arg.kind = "UnaryExpr" ->
            [arg EXCEPT
                !.pos = "doc",
                !.kids[1].pos = IF arg.kids[1].kind = "Ident" THEN "doc" ELSE @]
      [] OTHER -> arg

\* assignCorrectPos, ce.Fun
correctPosFun(fun) ==
    CASE fun.kind = "Ident" -> [fun EXCEPT !.pos = "doc"]
      [] fun.kind = "SelectorExpr" ->
            [fun EXCEPT !.kids[1].pos = "doc", !.kids[2].pos = "doc"]
      [] OTHER -> fun

\* assignCorrectPos(doc, ce)
assignCorrectPos(ce) ==
    [ce EXCEPT
        !.pos = "doc",
        !.kids = [i \in 1..Len(ce.kids) |->
                    IF i = 1 THEN correctPosFun(ce.kids[i])
                    ELSE correctPosArg(ce.kids[i])]]

\* the statements in ctx.Func's body
FuncStmt(stmts) == stmts[2].kids[2].kids[2].kids[1]

\* the body of the closure in the generated statements
WovenBody(stmts) == FuncStmt(stmts).kids[MainCallAt(FuncStmt(stmts))].kids[1].kids[2].kids

\* compile, chain loop after builderReplaceArgs: the generated statements
\* with the positions of wrapped_code.go if the file is among the package's,
\* the target's body spliced in, and the decorator call at the directive
weave(ra, body, wcf) ==
    LET stmts == IF wcf THEN assignWrappedCodePos(getStmtList(ra)) ELSE getStmtList(ra)
    IN  [stmts EXCEPT
            ![2].kids[2].kids[2].kids[1].kids[MainCallAt(FuncStmt(stmts))].kids[1].kids[2].kids
                = body,
            ![3].kids[1] = assignCorrectPos(@)]

ParamLetters == <<"a", "b", "c">>
ResultLetters == <<"r", "s", "u">>

\* the fields a parameter list can have at place k
ParamFields(k) ==
    {Field(names, TypeExpr(kind)) :
        names \in {<<>>, <<ParamLetters[k]>>, <<"_">>, <<ParamLetters[k], "_">>},
        kind \in TypeKinds}

\* what go/parser and the type checker accept: names on every field or on
\* none, "..." on the last field only and with at most one name
GenParamLists ==
    {l \in UNION {[1..n -> UNION {ParamFields(k) : k \in 1..MaxFields}] :
                    n \in 0..MaxFields} :
        /\ \A k \in 1..Len(l) : l[k] \in ParamFields(k)
        /\ \A k, m \in 1..Len(l) : (l[k].Names = <<>>) = (l[m].Names = <<>>)
        /\ \A k \in 1..Len(l) :
             l[k].Type.kind = "Ellipsis" => k = Len(l) /\ Len(l[k].Names) <= 1}

ResultFields(k) ==
    {Field(names, TypeExpr("Ident")) : names \in {<<>>, <<ResultLetters[k]>>, <<"_">>}}

GenResultLists ==
    {l \in UNION {[1..n -> UNION {ResultFields(k) : k \in 1..MaxFields}] :
                    n \in 0..MaxFields} :
        /\ \A k \in 1..Len(l) : l[k] \in ResultFields(k)
        /\ \A k, m \in 1..Len(l) : (l[k].Names = <<>>) = (l[m].Names = <<>>)}

\* receivers: (x T), (_ T), (T)
Receivers ==
    {<<Field(names, [kind |-> "Ident", elt |-> <<"T">>])>> :
        names \in {<<"x">>, <<"_">>, <<>>}}

\* the target declarations: functions of every parameter and result list,
\* methods without parameters
GenTargets ==
    {[Name |-> "h", Recv |-> <<>>, Params |-> p, Results |-> r, Body |-> OrigBody] :
        p \in GenParamLists, r \in GenResultLists}
    \cup
    {[Name |-> "h", Recv |-> rc, Params |-> <<>>, Results |-> r, Body |-> OrigBody] :
        rc \in Receivers, r \in {l \in GenResultLists : Len(l) <= 1}}

\* a directive of the chain: the decorator's name and the parameters
\* checkDecorAndGetParam returned for it
PlainDecor == [name |-> <<"f">>, params |-> <<>>]

FirstDecors ==
    {PlainDecor,
     [name |-> <<"g", ".", "f">>, params |-> <<<<"1">>>>],
     [name |-> <<"f">>, params |-> <<<<"-", "1">>>>],
     [name |-> <<"f">>, params |-> <<<<"t", "r", "u", "e">>>>]}

Chains ==
    {[i \in 1..n |-> IF i = 1 THEN d ELSE PlainDecor] : n \in 1..MaxChain, d \in FirstDecors}

\* compile, visit of a declaration with directives: gi := newGenIdentId()
InitGen ==
    /\ fdecl \in GenTargets
    /\ gi \in {newGenIdentId(suf) : suf \in randSuffixes}
    /\ genDecors \in Chains
    /\ wcfOk \in BOOLEAN
    /\ ras = <<>>
    /\ genStmts = <<>>
    /\ gpc = "ready"
    /\ LoadIdle /\ ImportIdle /\ LettersIdle
    /\ ParseIdle /\ LintIdle /\ CompileIdle /\ CallIdle

\* the state after one pass of the chain loop that built b
Woven(b, stmts) ==
    /\ genStmts' = stmts
    /\ fdecl' = [b.f EXCEPT !.Body = stmts]
    /\ ras' = Append(ras, b.ra)
    /\ gi' = b.gi
    /\ gpc' = "ready"

\* the state after builderReplaceArgs panicked
Panicked(b) ==
    /\ gpc' = "panicked"
    /\ gi' = b.gi
    /\ UNCHANGED <<fdecl, ras, genStmts>>

WeaveWith(b) ==
    IF b.panic THEN Panicked(b) ELSE Woven(b, weave(b.ra, fdecl.Body, wcfOk))

\* compile, one pass of the chain loop
ChainPass ==
    /\ gpc = "ready"
    /\ Len(ras) < Len(genDecors)
    /\ WeaveWith(builderReplaceArgs(fdecl, genDecors[Len(ras) + 1].name,
                                    genDecors[Len(ras) + 1].params, gi))
    /\ UNCHANGED <<genDecors, wcfOk, engineVars, loadVars, importVars, lettersVars>>

NextGen == ChainPass

SpecGen == InitGen /\ [][NextGen]_vars

\* the bindings a field list declares: one per name, one per field without
\* names
RECURSIVE NumBindings(_, _)
NumBindings(list, k) ==
    IF k > Len(list) THEN 0
    ELSE Max({1, Len(list[k].Names)}) + NumBindings(list, k + 1)

NoDuplicates(s) == \A i, j \in 1..Len(s) : s[i] = s[j] => i = j

\* the context variables of the chain and the names of the last descriptor
GenNames ==
    [i \in 1..Len(ras) |-> ras[i].DecorVarName]
    \o ras[Len(ras)].OutArgNames \o ras[Len(ras)].InArgNames

\* C21: after builderReplaceArgs every parameter and every result of the
\* target, unnamed and "_" ones included, has an identifier: TargetIn has one
\* entry per parameter, TargetOut one per result, no entry is "_", and the
\* context variables of the chain and these names are pairwise distinct.
C21_EveryBindingNamed ==
    ras # <<>> =>
        \A i \in 1..Len(ras) :
            /\ Len(ras[i].InArgNames) = NumBindings(fdecl.Params, 1)
            /\ Len(ras[i].OutArgNames) = NumBindings(fdecl.Results, 1)
            /\ \A k \in 1..Len(ras[i].InArgNames) : ras[i].InArgNames[k] # "_"
            /\ \A k \in 1..Len(ras[i].OutArgNames) : ras[i].OutArgNames[k] # "_"
            /\ NoDuplicates(GenNames)

\* what holds of it: the results and the named or "_" parameters have
\* distinct identifiers, one entry each
NamedBindingsNamed ==
    ras # <<>> =>
        \A i \in 1..Len(ras) :
            /\ Len(ras[i].InArgNames) = Len(namesOf(fdecl.Params, 1))
            /\ Len(ras[i].OutArgNames) = NumBindings(fdecl.Results, 1)
            /\ \A k \in 1..Len(ras[i].InArgNames) : ras[i].InArgNames[k] # "_"
            /\ \A k \in 1..Len(ras[i].OutArgNames) : ras[i].OutArgNames[k] # "_"
            /\ NoDuplicates(GenNames)

\* C23: builderReplaceArgs gives a descriptor for every target; its kind is
\* KMethod with the receiver's name exactly when the target has a receiver,
\* named or not, and KFunc with nil otherwise.
C23_KindAndReceiver ==
    /\ gpc # "panicked"
    /\ \A i \in 1..Len(ras) :
         IF fdecl.Recv = <<>>
         THEN ras[i].TKind = "KFunc" /\ ras[i].ReceiverVarName = "nil"
         ELSE /\ ras[i].TKind = "KMethod"
              /\ ras[i].ReceiverVarName # "nil"
              /\ fdecl.Recv[1].Names # <<>> => ras[i].ReceiverVarName = fdecl.Recv[1].Names[1]

\* what holds of it: every descriptor that is built has the kind and the
\* receiver of the declaration, and only a receiver without a name stops the
\* build
KindAndNamedReceiver ==
    /\ gpc = "panicked" => (fdecl.Recv # <<>> /\ fdecl.Recv[1].Names = <<>>)
    /\ (fdecl.Recv # <<>> /\ fdecl.Recv[1].Names = <<>>) => ras = <<>>
    /\ \A i \in 1..Len(ras) :
         IF fdecl.Recv = <<>>
         THEN ras[i].TKind = "KFunc" /\ ras[i].ReceiverVarName = "nil"
         ELSE ras[i].TKind = "KMethod" /\ ras[i].ReceiverVarName = fdecl.Recv[1].Names[1]

\* C28: in the call of the closure the argument of a parameter carries "..."
\* exactly when the parameter is variadic.
C28_SpreadIffVariadic ==
    \A i \in 1..Len(ras) :
        \A k \in 1..Len(ras[i].DecorCallIn) :
            ras[i].DecorCallIn[k].el = "..."
                <=> namesOf(fdecl.Params, 1)[k].Type.kind = "Ellipsis"

\* what holds of it: a variadic parameter is spread, and a parameter that is
\* neither variadic nor a slice is not
SpreadOnSlices ==
    \A i \in 1..Len(ras) :
        \A k \in 1..Len(ras[i].DecorCallIn) :
            ras[i].DecorCallIn[k].el = "..."
                <=> namesOf(fdecl.Params, 1)[k].Type.kind \in {"Ellipsis", "ArrayType"}

\* the positions of the nodes of a tree
RECURSIVE PosOf(_)
PosOf(node) == {node.pos} \cup UNION {PosOf(node.kids[i]) : i \in 1..Len(node.kids)}

\* the generated statements without the body they wrap
Scaffolding(stmts) ==
    [stmts EXCEPT
        ![2].kids[2].kids[2].kids[1].kids[MainCallAt(FuncStmt(stmts))].kids[1].kids[2].kids
            = <<>>]

\* the kinds of the nodes of a tree that are at position p
RECURSIVE KindsAt(_, _)
KindsAt(node, p) ==
    (IF node.pos = p THEN {node.kind} ELSE {})
    \cup UNION {KindsAt(node.kids[i], p) : i \in 1..Len(node.kids)}

KindsIn(stmts, p) == UNION {KindsAt(stmts[i], p) : i \in 1..Len(stmts)}

PosIn(stmts) == UNION {PosOf(stmts[i]) : i \in 1..Len(stmts)}

\* the statements after k passes of the chain loop: the scaffolding of each
\* pass is at its directive, the innermost body is the target's own
RECURSIVE AtDirective(_, _)
AtDirective(stmts, k) ==
    IF k = 0 THEN stmts = OrigBody
    ELSE /\ PosIn(Scaffolding(stmts)) \subseteq {"doc", "-"}
         /\ AtDirective(WovenBody(stmts), k - 1)

\* C22: after a pass of the chain loop every node of the replacement has a
\* position: the nodes of the scaffolding (context construction, assignment
\* of the callback, decorator call, return) that of the directive comment,
\* the nodes of the wrapped body their own; no node is left where the parser
\* of the generated text put it.
C22_EveryNodePositioned ==
    ras # <<>> => AtDirective(genStmts, Len(ras))

\* the body the statements wrap after k passes
RECURSIVE InnermostBody(_, _)
InnermostBody(stmts, k) == IF k = 0 THEN stmts ELSE InnermostBody(WovenBody(stmts), k - 1)

\* what holds of it: the wrapped body is the target's, with its positions,
\* and the decorator call, its function and its identifier and literal
\* arguments are at the directive
BodyAndCallPositioned ==
    ras # <<>> =>
        /\ InnermostBody(genStmts, Len(ras)) = OrigBody
        /\ genStmts[3].kids[1].pos = "doc"
        /\ PosOf(genStmts[3].kids[1].kids[1]) \subseteq {"doc", "-"}
        /\ \A i \in 2..Len(genStmts[3].kids[1].kids) :
             genStmts[3].kids[1].kids[i].pos = "doc"
        /\ fdecl.Body = genStmts

====
